---- MODULE Spec2Model ----
(***************************************************************************)
(* Benchmarking and data-quality core of the NZDPU MCP server.             *)
(*                                                                         *)
(* The core is a collection of synchronous functions over a read-only      *)
(* record store.  The state of the model is the store, the last call made  *)
(* by the calling shell (operation and arguments) and what it returned.    *)
(* One specification per component:                                        *)
(*   SpecCompare  knowledge/comparability.ts  (the comparability checker)  *)
(*   SpecStats    benchmarking engine: calculatePeerStats and              *)
(*                calculatePercentileRank                                  *)
(*   SpecBench    db/queries.ts getPeerStatistics / benchmarkCompany, the  *)
(*                nzdpu_benchmark and nzdpu_quality handlers of the server *)
(*                and the API-backed benchmarking engine                   *)
(*   SpecComparison  the pairwise check and the compare mode side by side  *)
(*   SpecQuality  assessDataQuality over single emissions rows             *)
(*   SpecChanges  detectMethodologyChanges over the history of a company   *)
(*   SpecTrend    getPeerTrend / analyzeTrend and compareYears             *)
(*   SpecShared   requests in flight together, sharing the connection of   *)
(*                getDatabase and the cache of the API client              *)
(*   SpecCache    the SimpleCache of the API client under a clock          *)
(***************************************************************************)
EXTENDS Integers, Sequences, FiniteSets, TLC

VARIABLES store, call, result

vars == <<store, call, result>>

(***************************************************************************)
(* Absent values.  An EmissionsData field that is not reported is          *)
(* `undefined' (parseEmissionValue); a database column without a value is  *)
(* NULL.  Both are kept apart from every number and string of the model.   *)
(***************************************************************************)
Undefined == -2

Null == -1

UndefinedStr == "undefined"

NullStr == "null"

\* JavaScript truthiness of an optional string
TruthyStr(s) == s # UndefinedStr /\ s # NullStr /\ s # ""

\* the elements of a sequence
Range(s) == {s[i] : i \in DOMAIN s}

(***************************************************************************)
(* knowledge/comparability.ts                                              *)
(***************************************************************************)

Scope2Methodologies == {"location_based", "market_based"}

ComparisonScopes == {"scope1", "scope2_lb", "scope2_mb", "scope2", "scope3", "total"}

Years == {2021, 2022}

Boundaries == {UndefinedStr, "Operational control", "Company-defined custom"}

Scope1Methods == {UndefinedStr, "Direct measurement", "Emission factors"}

\* a reported magnitude, or nothing
EmissionValues == {Undefined, 10}

\* the number of companies a comparison request can name
MaxCompanies == 2

RequestIds == 1..MaxCompanies

\* EmissionsData records handed to the pairwise checker
PairRecords ==
  [ year : Years,
    scope1_emissions : {10},
    scope1_methodology : Scope1Methods,
    scope2_location_based : EmissionValues,
    scope2_market_based : EmissionValues,
    scope3_total : {Undefined},
    organizational_boundary : Boundaries ]

\* EmissionsData records held in the map of a comparison request
RequestRecords ==
  [ year : {2022},
    scope1_emissions : EmissionValues,
    scope1_methodology : {UndefinedStr},
    scope2_location_based : EmissionValues,
    scope2_market_based : EmissionValues,
    scope3_total : EmissionValues,
    organizational_boundary : {"Operational control"} ]

\* the maps id -> EmissionsData over a subset of the known ids
RequestMaps == UNION {[ids -> RequestRecords] : ids \in SUBSET RequestIds}

\* the lists of distinct ids a request can name
RECURSIVE IdLists(_)
IdLists(n) ==
  IF n = 0 THEN {<<>>}
  ELSE LET shorter == IdLists(n - 1)
       IN  shorter \cup
           {Append(l, id) : l \in {s \in shorter : Len(s) = n - 1},
                            id \in RequestIds}

RequestIdLists ==
  {l \in IdLists(MaxCompanies) :
     Len(l) > 0 /\ \A i, j \in DOMAIN l : i # j => l[i] # l[j]}

Warning(type, severity, message) ==
  [type |-> type, severity |-> severity, message |-> message]

checkScope2Comparability(methodology1, methodology2) ==
  IF methodology1 = methodology2
  THEN [isComparable |-> TRUE, warnings |-> <<>>]
  ELSE [isComparable |-> FALSE,
        warnings |-> << Warning("scope2_mismatch", "error",
                                <<"Cannot compare Scope 2 emissions">>) >>]

yearWarnings(emissions1, emissions2) ==
  IF emissions1.year # emissions2.year
  THEN << Warning("year_mismatch", "warning",
                  <<"Different reporting years", ToString(emissions1.year),
                    ToString(emissions2.year)>>) >>
  ELSE <<>>

\* boundaryWarnings with the boundary mismatch raised as an error
boundaryWarnings_asError(emissions1, emissions2) ==
  IF /\ emissions1.organizational_boundary # emissions2.organizational_boundary
     /\ TruthyStr(emissions1.organizational_boundary)
     /\ TruthyStr(emissions2.organizational_boundary)
  THEN << Warning("boundary_mismatch", "error",
                  <<"Different organizational boundaries",
                    emissions1.organizational_boundary,
                    emissions2.organizational_boundary>>) >>
  ELSE <<>>

boundaryWarnings(emissions1, emissions2) ==
  IF /\ emissions1.organizational_boundary # emissions2.organizational_boundary
     /\ TruthyStr(emissions1.organizational_boundary)
     /\ TruthyStr(emissions2.organizational_boundary)
  THEN << Warning("boundary_mismatch", "warning",
                  <<"Different organizational boundaries",
                    emissions1.organizational_boundary,
                    emissions2.organizational_boundary>>) >>
  ELSE <<>>

scope1MethodologyWarnings(emissions1, emissions2) ==
  IF /\ TruthyStr(emissions1.scope1_methodology)
     /\ TruthyStr(emissions2.scope1_methodology)
     /\ emissions1.scope1_methodology # emissions2.scope1_methodology
  THEN << Warning("methodology_mismatch", "info",
                  <<"Different Scope 1 methodologies",
                    emissions1.scope1_methodology,
                    emissions2.scope1_methodology>>) >>
  ELSE <<>>

mixedComparison(emissions1, emissions2) ==
  LET hasScope2LB1 == emissions1.scope2_location_based # Undefined
      hasScope2MB1 == emissions1.scope2_market_based # Undefined
      hasScope2LB2 == emissions2.scope2_location_based # Undefined
      hasScope2MB2 == emissions2.scope2_market_based # Undefined
  IN  \/ (hasScope2LB1 /\ ~hasScope2LB2 /\ hasScope2MB2)
      \/ (hasScope2MB1 /\ ~hasScope2MB2 /\ hasScope2LB2)

\* checkEmissionsComparability with a year mismatch treated as a blocker
checkEmissionsComparability_yearBlocks(emissions1, emissions2) ==
  LET mixed == mixedComparison(emissions1, emissions2)
  IN  [isComparable |-> ~mixed /\ emissions1.year = emissions2.year,
       warnings |->
         yearWarnings(emissions1, emissions2)
         \o boundaryWarnings(emissions1, emissions2)
         \o scope1MethodologyWarnings(emissions1, emissions2)
         \o (IF mixed
             THEN << Warning("scope2_mismatch", "error",
                             <<"Scope 2 methodology mismatch detected">>) >>
             ELSE <<>>)]

checkEmissionsComparability(emissions1, emissions2) ==
  LET mixed == mixedComparison(emissions1, emissions2)
  IN  [isComparable |-> ~mixed,
       warnings |->
         yearWarnings(emissions1, emissions2)
         \o boundaryWarnings(emissions1, emissions2)
         \o scope1MethodologyWarnings(emissions1, emissions2)
         \o (IF mixed
             THEN << Warning("scope2_mismatch", "error",
                             <<"Scope 2 methodology mismatch detected">>) >>
             ELSE <<>>)]

\* the ids of the request that have no entry in the map, in request order
missingData(companyIds, emissionsData) ==
  SelectSeq(companyIds, LAMBDA id : id \notin DOMAIN emissionsData)

scope2Field(scope) ==
  IF scope = "scope2_lb" THEN "scope2_location_based" ELSE "scope2_market_based"

scope2OtherField(scope) ==
  IF scope = "scope2_lb" THEN "scope2_market_based" ELSE "scope2_location_based"

\* the entries of the map without the requested variant (undefined or null)
missingMethodology(scope, emissionsData) ==
  {id \in DOMAIN emissionsData :
     emissionsData[id][scope2Field(scope)] \in {Undefined, Null}}

\* those of them that report the other variant
hasOther(scope, emissionsData) ==
  {id \in missingMethodology(scope, emissionsData) :
     emissionsData[id][scope2OtherField(scope)] \notin {Undefined, Null}}

genericScope2Warnings(scope) ==
  IF scope = "scope2"
  THEN << Warning("scope2_mismatch", "warning",
                  <<"Generic scope2 comparison requested">>) >>
  ELSE <<>>

validateComparisonRequest(companyIds, scope, emissionsData) ==
  LET missing == missingData(companyIds, emissionsData)
      generic == genericScope2Warnings(scope)
  IN  IF Len(missing) > 0
      THEN [isComparable |-> FALSE,
            warnings |-> << Warning("data_quality", "error",
                                    <<"Missing emissions data for companies">>
                                    \o [i \in DOMAIN missing |-> ToString(missing[i])]) >>]
      ELSE IF /\ scope \in {"scope2_lb", "scope2_mb"}
              /\ hasOther(scope, emissionsData) # {}
      THEN [isComparable |-> FALSE,
            warnings |-> generic \o
              << Warning("scope2_mismatch", "error",
                         <<"Some companies only report the other Scope 2 variant">>) >>]
      ELSE [isComparable |-> \A i \in DOMAIN generic : generic[i].severity # "error",
            warnings |-> generic]

EmptyStore == [companies |-> <<>>, emissions |-> {}]

NoCall == [op |-> "none"]

NoResult == [status |-> "none"]

\* the core is synchronous: one call at a time, made when none is in progress
Idle == call = NoCall

\* the call returns to the shell, which is then free to make the next one
Return ==
  /\ ~Idle
  /\ call' = NoCall
  /\ result' = NoResult
  /\ UNCHANGED store

InitCompare ==
  /\ store = EmptyStore
  /\ call = NoCall
  /\ result = NoResult

CheckScope2 ==
  /\ Idle
  /\ \E m1, m2 \in Scope2Methodologies :
      /\ call' = [op |-> "checkScope2Comparability",
                  methodology1 |-> m1, methodology2 |-> m2]
      /\ result' = checkScope2Comparability(m1, m2)
      /\ UNCHANGED store

CheckEmissions ==
  /\ Idle
  /\ \E e1, e2 \in PairRecords :
      /\ call' = [op |-> "checkEmissionsComparability",
                  emissions1 |-> e1, emissions2 |-> e2]
      /\ result' = checkEmissionsComparability(e1, e2)
      /\ UNCHANGED store

ValidateRequest ==
  /\ Idle
  /\ \E ids \in RequestIdLists, scope \in ComparisonScopes, data \in RequestMaps :
      /\ call' = [op |-> "validateComparisonRequest",
                  companyIds |-> ids, scope |-> scope, emissionsData |-> data]
      /\ result' = validateComparisonRequest(ids, scope, data)
      /\ UNCHANGED store

NextCompare == CheckScope2 \/ CheckEmissions \/ ValidateRequest \/ Return

SpecCompare == InitCompare /\ [][NextCompare]_vars

(***************************************************************************)
(* Benchmarking engine: statistics of a peer sample.                       *)
(* Quotients are kept exact as fractions num/den with den > 0; the         *)
(* standard deviation is kept as its square, the population variance.      *)
(***************************************************************************)

\* the largest magnitude of a sample value
MaxValue == 3

\* the largest number of values in a sample
MaxSample == 5

Magnitudes == 0..MaxValue

Rat(n, d) == [num |-> n, den |-> d]

RatEq(a, b) == a.num * b.den = b.num * a.den

RatLeq(a, b) == a.num * b.den <= b.num * a.den

RECURSIVE SeqsUpTo(_, _)
SeqsUpTo(S, n) ==
  IF n = 0 THEN {<<>>}
  ELSE LET shorter == SeqsUpTo(S, n - 1)
       IN  shorter \cup
           {Append(l, x) : l \in {q \in shorter : Len(q) = n - 1}, x \in S}

\* the samples handed to the calculator, in any order
Samples == SeqsUpTo(Magnitudes, MaxSample)

RECURSIVE Sum(_)
Sum(s) == IF s = <<>> THEN 0 ELSE Head(s) + Sum(Tail(s))

\* x placed into the ascending sequence s
RECURSIVE Insert(_, _)
Insert(x, s) ==
  IF s = <<>> THEN <<x>>
  ELSE IF x <= Head(s) THEN <<x>> \o s
  ELSE <<Head(s)>> \o Insert(x, Tail(s))

\* [...values].sort((a, b) => a - b)
RECURSIVE SortAscending(_)
SortAscending(s) ==
  IF s = <<>> THEN <<>> ELSE Insert(Head(s), SortAscending(Tail(s)))

IsAscending(s) == \A i, j \in DOMAIN s : i <= j => s[i] <= s[j]

\* const sorted = values.sort(...): sort puts the array it is called on in
\* order, here the argument itself
sortedCopy_inPlace(values) ==
  [values |-> SortAscending(values), sorted |-> SortAscending(values)]

\* const sorted = [...values].sort(...): the argument and the copy the
\* spread makes, after sort has put the copy in order
sortedCopy(values) == [values |-> values, sorted |-> SortAscending(values)]

\* sum of (v - mean)^2 over the sample, divided by n, as a fraction
PopulationVariance(values) ==
  LET n == Len(values)
      total == Sum(values)
  IN  Rat(Sum([i \in DOMAIN values |-> (n * values[i] - total) * (n * values[i] - total)]),
          n * n * n)

EmptyStats ==
  [count |-> 0, mean |-> Rat(0, 1), median |-> Rat(0, 1), variance |-> Rat(0, 1),
   min |-> 0, max |-> 0, percentile25 |-> 0, percentile75 |-> 0]

\* calculatePeerStats with the percentiles read from the unsorted input
calculatePeerStats_unsortedPercentiles(values) ==
  IF Len(values) = 0 THEN EmptyStats
  ELSE LET sorted == SortAscending(values)
           n == Len(sorted)
       IN  [count |-> n,
            mean |-> Rat(Sum(values), n),
            median |-> IF n % 2 = 0
                       THEN Rat(sorted[n \div 2] + sorted[(n \div 2) + 1], 2)
                       ELSE Rat(sorted[(n \div 2) + 1], 1),
            variance |-> PopulationVariance(values),
            min |-> sorted[1],
            max |-> sorted[n],
            percentile25 |-> values[(n \div 4) + 1],
            percentile75 |-> values[((3 * n) \div 4) + 1]]

\* sorted[k] of the source is sorted[k + 1] here: sequences start at 1
calculatePeerStats(values) ==
  IF Len(values) = 0 THEN EmptyStats
  ELSE LET sorted == SortAscending(values)
           n == Len(sorted)
       IN  [count |-> n,
            mean |-> Rat(Sum(values), n),
            median |-> IF n % 2 = 0
                       THEN Rat(sorted[n \div 2] + sorted[(n \div 2) + 1], 2)
                       ELSE Rat(sorted[(n \div 2) + 1], 1),
            variance |-> PopulationVariance(values),
            min |-> sorted[1],
            max |-> sorted[n],
            percentile25 |-> sorted[(n \div 4) + 1],
            percentile75 |-> sorted[((3 * n) \div 4) + 1]]

belowCount(value, values) == Cardinality({i \in DOMAIN values : values[i] < value})

equalCount(value, values) == Cardinality({i \in DOMAIN values : values[i] = value})

\* calculatePercentileRank with the naive count-below formula
calculatePercentileRank_countBelow(value, values) ==
  IF Len(values) = 0 THEN Rat(0, 1)
  ELSE Rat(belowCount(value, values) * 100, Len(values))

\* calculatePercentileRank counting the values above instead of those below
calculatePercentileRank_countAbove(value, values) ==
  IF Len(values) = 0 THEN Rat(0, 1)
  ELSE Rat((2 * Cardinality({i \in DOMAIN values : values[i] > value})
            + equalCount(value, values)) * 100,
           2 * Len(values))

\* ((belowCount + 0.5 * equalCount) / n) * 100
calculatePercentileRank(value, values) ==
  IF Len(values) = 0 THEN Rat(0, 1)
  ELSE Rat((2 * belowCount(value, values) + equalCount(value, values)) * 100,
           2 * Len(values))

createPeerComparison(peerGroupName, companyValue, peerValues) ==
  [peerGroupName |-> peerGroupName,
   peerCount |-> Len(peerValues),
   companyValue |-> companyValue,
   percentileRank |-> calculatePercentileRank(companyValue, peerValues),
   stats |-> calculatePeerStats(peerValues)]

(***************************************************************************)
(* db/queries.ts: the statistics getPeerStatistics computes from the rows  *)
(* of its query, which come back in ascending order (ORDER BY) and hold    *)
(* only values > 0.                                                        *)
(***************************************************************************)

NullStats == [count |-> Null]

\* the statistics of the rows with the percentiles swapped
peerStatisticsOfRows_swappedPercentiles(nums) ==
  IF Len(nums) = 0 THEN NullStats
  ELSE LET count == Len(nums)
           mid == count \div 2
       IN  [count |-> count,
            mean |-> Rat(Sum(nums), count),
            median |-> IF count % 2 = 0
                       THEN Rat(nums[mid] + nums[mid + 1], 2)
                       ELSE Rat(nums[mid + 1], 1),
            min |-> nums[1],
            max |-> nums[count],
            variance |-> PopulationVariance(nums),
            percentile25 |-> nums[((3 * count) \div 4) + 1],
            percentile75 |-> nums[(count \div 4) + 1]]

peerStatisticsOfRows(nums) ==
  IF Len(nums) = 0 THEN NullStats
  ELSE LET count == Len(nums)
           mid == count \div 2
       IN  [count |-> count,
            mean |-> Rat(Sum(nums), count),
            median |-> IF count % 2 = 0
                       THEN Rat(nums[mid] + nums[mid + 1], 2)
                       ELSE Rat(nums[mid + 1], 1),
            min |-> nums[1],
            max |-> nums[count],
            variance |-> PopulationVariance(nums),
            percentile25 |-> nums[(count \div 4) + 1],
            percentile75 |-> nums[((3 * count) \div 4) + 1]]

\* Math.round(position / range * 100) of calcPercentile
calcPercentile(value, stats) ==
  IF value = Null \/ value = 0 \/ stats = NullStats THEN Null
  ELSE IF value <= stats.min THEN 0
  ELSE IF value >= stats.max THEN 100
  ELSE LET range == stats.max - stats.min
           position == value - stats.min
       IN  (200 * position + range) \div (2 * range)

\* the row lists a query can return
QueryRows == {s \in SeqsUpTo(Magnitudes \ {0}, MaxSample) : IsAscending(s)}

\* The call of an engine function records its sample as passed (values) and
\* as the caller finds it when the function has returned (valuesAfter).
InitStats ==
  /\ store = EmptyStore
  /\ call = NoCall
  /\ result = NoResult

CalculatePeerStats ==
  /\ Idle
  /\ \E values \in Samples :
      /\ call' = [op |-> "calculatePeerStats", values |-> values,
                  valuesAfter |-> sortedCopy(values).values]
      /\ result' = calculatePeerStats(values)
      /\ UNCHANGED store

CalculatePercentileRank ==
  /\ Idle
  /\ \E value \in Magnitudes, values \in Samples :
      /\ call' = [op |-> "calculatePercentileRank", value |-> value, values |-> values,
                  valuesAfter |-> sortedCopy(values).values]
      /\ result' = calculatePercentileRank(value, values)
      /\ UNCHANGED store

CreatePeerComparison ==
  /\ Idle
  /\ \E value \in Magnitudes, values \in Samples :
      /\ call' = [op |-> "createPeerComparison", value |-> value, values |-> values,
                  valuesAfter |-> sortedCopy(sortedCopy(values).values).values]
      /\ result' = createPeerComparison("peers", value, values)
      /\ UNCHANGED store

PeerStatisticsOfRows ==
  /\ Idle
  /\ \E nums \in QueryRows :
      /\ call' = [op |-> "getPeerStatistics", values |-> nums]
      /\ result' = peerStatisticsOfRows(nums)
      /\ UNCHANGED store

\* the closure of benchmarkCompany, applied to a company value and the
\* statistics of a cohort
CalcPercentile ==
  /\ Idle
  /\ \E value \in Magnitudes \ {0}, nums \in QueryRows :
      /\ call' = [op |-> "calcPercentile", value |-> value, values |-> nums]
      /\ result' = calcPercentile(value, peerStatisticsOfRows(nums))
      /\ UNCHANGED store

NextStats ==
  \/ CalculatePeerStats
  \/ CalculatePercentileRank
  \/ CreatePeerComparison
  \/ PeerStatisticsOfRows
  \/ CalcPercentile
  \/ Return

SpecStats == InitStats /\ [][NextStats]_vars

(***************************************************************************)
(* db/queries.ts: the record store and the queries over it.                *)
(* store.companies maps each nz_id of the companies table to its row;      *)
(* store.emissions is the emissions table, one row per (nz_id, year).      *)
(* Text is compared as stored: the model holds one spelling of each name,  *)
(* so LOWER(a) = LOWER(b) is a = b.                                        *)
(***************************************************************************)

\* the number of companies in the store
NumCompanies == 4

CompanyIds == 1..NumCompanies

\* the ids a request can name: those of the store and one that is not in it
RequestableIds == 1..(NumCompanies + 1)

\* a request without a year
NoYear == 0

RequestYears == {NoYear} \cup Years

\* a request without a filter on an attribute
NoFilter == ""

BenchScopes == {"scope1", "scope2_lb", "scope2_mb", "scope3"}

NumCategories == 15

Categories == 1..NumCategories

\* the column a scope selects
column(scope) == IF scope = "scope3" THEN "scope3_total" ELSE scope

\* !text of an optional text column
Falsy(text) == text = NullStr \/ text = ""

\* what a lookup of a company returns when there is no such row
NoCompany == [nz_id |-> Null]

getCompanyById(nzId) ==
  IF nzId \in DOMAIN store.companies THEN store.companies[nzId] ELSE NoCompany

\* the rows of a set, latest year first
RECURSIVE ByYearDescending(_)
ByYearDescending(rows) ==
  IF rows = {} THEN <<>>
  ELSE LET latest == CHOOSE r \in rows : \A q \in rows : q.year <= r.year
       IN  <<latest>> \o ByYearDescending(rows \ {latest})

getCompanyEmissions(nzId, year) ==
  IF year # NoYear
  THEN ByYearDescending({e \in store.emissions : e.nz_id = nzId /\ e.year = year})
  ELSE ByYearDescending({e \in store.emissions : e.nz_id = nzId})

\* the rows getPeerStatistics selects
peerRows(scope, filters) ==
  {e \in store.emissions :
     /\ e[column(scope)] # Null
     /\ e[column(scope)] > 0
     /\ filters.jurisdiction # NoFilter =>
          store.companies[e.nz_id].jurisdiction = filters.jurisdiction
     /\ filters.sics_sector # NoFilter =>
          store.companies[e.nz_id].sics_sector = filters.sics_sector
     /\ filters.year # NoYear => e.year = filters.year}

\* the values of a set of rows in ascending order (ORDER BY)
RECURSIVE OrderedValues(_, _)
OrderedValues(rows, col) ==
  IF rows = {} THEN <<>>
  ELSE LET r == CHOOSE x \in rows : TRUE
       IN  Insert(r[col], OrderedValues(rows \ {r}, col))

getPeerStatistics(scope, filters) ==
  peerStatisticsOfRows(OrderedValues(peerRows(scope, filters), column(scope)))

Filters(jurisdiction, sector, year) ==
  [jurisdiction |-> jurisdiction, sics_sector |-> sector, year |-> year]

DefaultYear == 2022

\* benchmarkCompany returns null for a company that is not in the store
NoBenchmark == [company |-> NoCompany]

benchmarkCompany(nzId, scope, year) ==
  LET company == getCompanyById(nzId)
  IN  IF company = NoCompany THEN NoBenchmark
      ELSE
        LET rows == getCompanyEmissions(nzId, year)
            found == Len(rows) > 0
            companyValue == IF found THEN rows[1][column(scope)] ELSE Null
            companyYear == IF found THEN rows[1].year
                           ELSE IF company.latest_reported_year # Null
                                THEN company.latest_reported_year
                                ELSE DefaultYear
            jurisdictionStats ==
              IF ~Falsy(company.jurisdiction)
              THEN getPeerStatistics(scope,
                     Filters(company.jurisdiction, NoFilter, companyYear))
              ELSE NullStats
            sectorStats ==
              IF ~Falsy(company.sics_sector)
              THEN getPeerStatistics(scope,
                     Filters(NoFilter, company.sics_sector, companyYear))
              ELSE NullStats
            combinedStats ==
              IF ~Falsy(company.jurisdiction) /\ ~Falsy(company.sics_sector)
              THEN getPeerStatistics(scope,
                     Filters(company.jurisdiction, company.sics_sector, companyYear))
              ELSE NullStats
        IN  [company |-> company,
             companyValue |-> companyValue,
             companyYear |-> companyYear,
             jurisdictionStats |-> jurisdictionStats,
             sectorStats |-> sectorStats,
             combinedStats |-> combinedStats,
             percentileInJurisdiction |-> calcPercentile(companyValue, jurisdictionStats),
             percentileInSector |-> calcPercentile(companyValue, sectorStats),
             percentileInCombined |-> calcPercentile(companyValue, combinedStats)]

(***************************************************************************)
(* db/queries.ts: data-quality assessment of one emissions row.            *)
(* s.toLowerCase().includes(t) is the table LowercaseIncludes over the     *)
(* texts the model stores.                                                 *)
(***************************************************************************)

STANDARD_BOUNDARIES == {"Operational control", "Financial control", "Equity share"}

LowercaseIncludes ==
  { <<"Operational control", "operational">>,
    <<"Financial control", "financial">>,
    <<"Equity share", "equity">>,
    <<"Equity share approach", "equity">>,
    <<"Reasonable assurance", "reasonable">>,
    <<"Limited assurance", "limited">>,
    <<"GHG Protocol Corporate Standard", "ghg protocol">>,
    <<"EPA Mandatory Reporting Rule", "epa">> }

Includes(text, fragment) == <<text, fragment>> \in LowercaseIncludes

assessBoundaryQuality(boundary) ==
  IF Falsy(boundary) THEN [score |-> "LOW", isStandard |-> FALSE]
  ELSE IF boundary \in STANDARD_BOUNDARIES THEN [score |-> "HIGH", isStandard |-> TRUE]
  ELSE IF Includes(boundary, "operational") \/ Includes(boundary, "financial")
  THEN [score |-> "HIGH", isStandard |-> TRUE]
  ELSE IF Includes(boundary, "equity") THEN [score |-> "MEDIUM", isStandard |-> TRUE]
  ELSE [score |-> "LOW", isStandard |-> FALSE]

assessVerificationQuality(verification) ==
  IF Falsy(verification) THEN "LOW"
  ELSE IF Includes(verification, "reasonable") THEN "HIGH"
  ELSE "MEDIUM"

assessS12MethodologyQuality(methodology) ==
  IF Falsy(methodology) THEN "LOW"
  ELSE IF \/ Includes(methodology, "ghg protocol")
          \/ Includes(methodology, "iso 14064")
          \/ Includes(methodology, "api compendium")
          \/ Includes(methodology, "ipieca")
  THEN "HIGH"
  ELSE "MEDIUM"

SCOPE3_METHOD_QUALITY ==
  [m \in {"Supplier-specific method", "Hybrid method", "Asset-specific method",
          "Fuel-based method", "Site-specific method", "Lessor-specific method",
          "Lessee-specific method", "Franchise-specific method",
          "Investment-specific method"} |-> "PRIMARY"]
  @@ [m \in {"Average-data method", "Spend-based method", "Distance-based method",
             "Waste-type-specific method", "Average product method"} |-> "MODELED"]

\* getScope3MethodTier with a name the table does not hold taken as modeled
getScope3MethodTier_unknownAsModeled(method) ==
  IF Falsy(method) \/ method = "-" THEN "UNKNOWN"
  ELSE IF method \in DOMAIN SCOPE3_METHOD_QUALITY THEN SCOPE3_METHOD_QUALITY[method]
  ELSE "MODELED"

getScope3MethodTier(method) ==
  IF Falsy(method) \/ method = "-" THEN "UNKNOWN"
  ELSE IF method \in DOMAIN SCOPE3_METHOD_QUALITY THEN SCOPE3_METHOD_QUALITY[method]
  ELSE "UNKNOWN"

ScoreValue(score) ==
  CASE score = "HIGH" -> 3 [] score = "MEDIUM" -> 2 [] score = "LOW" -> 1

\* calculateOverallScore with the average rounded up at 7/3
calculateOverallScore_lowHighBar(boundaryScore, verificationScore, methodologyScore) ==
  LET total == ScoreValue(boundaryScore) + ScoreValue(verificationScore)
               + ScoreValue(methodologyScore)
  IN  IF total >= 7 THEN "HIGH"
      ELSE IF 2 * total >= 9 THEN "MEDIUM"
      ELSE "LOW"

\* avg = total / 3; avg >= 2.5 is 2 * total >= 15 and avg >= 1.5 is 2 * total >= 9
calculateOverallScore(boundaryScore, verificationScore, methodologyScore) ==
  LET total == ScoreValue(boundaryScore) + ScoreValue(verificationScore)
               + ScoreValue(methodologyScore)
  IN  IF 2 * total >= 15 THEN "HIGH"
      ELSE IF 2 * total >= 9 THEN "MEDIUM"
      ELSE "LOW"

\* a modeled category is flagged above this value (tCO2e)
SignificantEmissions == 1000000

boundaryQualityWarnings(emissions) ==
  IF /\ ~assessBoundaryQuality(emissions.organizational_boundary).isStandard
     /\ ~Falsy(emissions.organizational_boundary)
  THEN << [kind |-> "non_standard_boundary",
           text |-> emissions.organizational_boundary] >>
  ELSE <<>>

verificationQualityWarnings(emissions) ==
  LET score == assessVerificationQuality(emissions.verification_status)
  IN  IF score = "LOW"
      THEN << [kind |-> "no_verification", text |-> NullStr] >>
      ELSE IF score = "MEDIUM" /\ Includes(emissions.verification_status, "limited")
      THEN << [kind |-> "limited_assurance", text |-> emissions.verification_status] >>
      ELSE <<>>

\* the warnings of categories cat..15, in category order
RECURSIVE categoryWarnings(_, _)
categoryWarnings(emissions, cat) ==
  IF cat > NumCategories THEN <<>>
  ELSE LET value == emissions.scope3_cat[cat]
           method == emissions.scope3_cat_method[cat]
           methodTier == getScope3MethodTier(method)
           here == IF value # Null /\ value > 0
                   THEN IF methodTier = "UNKNOWN"
                        THEN << [kind |-> "scope3_no_methodology", text |-> method,
                                 category |-> cat, value |-> value] >>
                        ELSE IF methodTier = "MODELED" /\ value > SignificantEmissions
                        THEN << [kind |-> "scope3_modeled", text |-> method,
                                 category |-> cat, value |-> value] >>
                        ELSE <<>>
                   ELSE <<>>
       IN  here \o categoryWarnings(emissions, cat + 1)

assessDataQuality(emissions) ==
  LET boundary == assessBoundaryQuality(emissions.organizational_boundary)
      verificationScore == assessVerificationQuality(emissions.verification_status)
      scope1MethodologyScore == assessS12MethodologyQuality(emissions.scope1_methodology)
  IN  [nz_id |-> emissions.nz_id,
       year |-> emissions.year,
       boundaryScore |-> boundary.score,
       boundaryType |-> emissions.organizational_boundary,
       boundaryIsStandard |-> boundary.isStandard,
       verificationScore |-> verificationScore,
       verificationType |-> emissions.verification_status,
       scope1MethodologyScore |-> scope1MethodologyScore,
       scope2LBMethodologyScore |->
         assessS12MethodologyQuality(emissions.scope2_lb_methodology),
       scope2MBMethodologyScore |->
         assessS12MethodologyQuality(emissions.scope2_mb_methodology),
       scope3MethodQuality |->
         [cat \in Categories |->
            [method |-> emissions.scope3_cat_method[cat],
             methodTier |-> getScope3MethodTier(emissions.scope3_cat_method[cat]),
             value |-> emissions.scope3_cat[cat]]],
       overallScore |->
         calculateOverallScore(boundary.score, verificationScore, scope1MethodologyScore),
       warnings |-> boundaryQualityWarnings(emissions)
                    \o verificationQualityWarnings(emissions)
                    \o categoryWarnings(emissions, 1),
       methodologyConsistent |-> TRUE,
       methodologyChanges |-> <<>>]

\* the change tuples of categories cat..15 between two rows
RECURSIVE categoryChanges(_, _, _)
categoryChanges(prev, curr, cat) ==
  IF cat > NumCategories THEN <<>>
  ELSE LET prevMethod == prev.scope3_cat_method[cat]
           currMethod == curr.scope3_cat_method[cat]
           here == IF prevMethod # currMethod /\ (~Falsy(prevMethod) \/ ~Falsy(currMethod))
                   THEN << [scope |-> <<"Scope 3 Category", cat>>,
                            previousMethod |-> prevMethod,
                            currentMethod |-> currMethod] >>
                   ELSE <<>>
       IN  here \o categoryChanges(prev, curr, cat + 1)

\* fieldChange that takes a field for changed only when both rows report it
fieldChange_bothPresent(scope, previous, current) ==
  IF previous # current /\ ~Falsy(previous) /\ ~Falsy(current)
  THEN << [scope |-> <<scope, 0>>, previousMethod |-> previous,
           currentMethod |-> current] >>
  ELSE <<>>

fieldChange(scope, previous, current) ==
  IF previous # current
  THEN << [scope |-> <<scope, 0>>, previousMethod |-> previous,
           currentMethod |-> current] >>
  ELSE <<>>

yearChanges(prev, curr) ==
  fieldChange("Scope 1", prev.scope1_methodology, curr.scope1_methodology)
  \o fieldChange("Scope 2 Location-Based",
                 prev.scope2_lb_methodology, curr.scope2_lb_methodology)
  \o fieldChange("Scope 2 Market-Based",
                 prev.scope2_mb_methodology, curr.scope2_mb_methodology)
  \o categoryChanges(prev, curr, 1)
  \o fieldChange("Organizational Boundary",
                 prev.organizational_boundary, curr.organizational_boundary)

\* rows sorted by year ascending: the reverse of the query's order
Reverse(s) == [i \in DOMAIN s |-> s[Len(s) + 1 - i]]

\* changesFrom that keeps an entry for a pair of rows without any change
RECURSIVE changesFrom_keepEmpty(_, _)
changesFrom_keepEmpty(sorted, i) ==
  IF i > Len(sorted) THEN <<>>
  ELSE << [year |-> sorted[i].year,
           changes |-> yearChanges(sorted[i - 1], sorted[i])] >>
       \o changesFrom_keepEmpty(sorted, i + 1)

\* the entries for the pairs (sorted[i - 1], sorted[i]), i = from..Len(sorted)
RECURSIVE changesFrom(_, _)
changesFrom(sorted, i) ==
  IF i > Len(sorted) THEN <<>>
  ELSE LET found == yearChanges(sorted[i - 1], sorted[i])
       IN  (IF Len(found) > 0
            THEN << [year |-> sorted[i].year, changes |-> found] >>
            ELSE <<>>)
           \o changesFrom(sorted, i + 1)

detectMethodologyChanges(nzId) ==
  LET emissions == getCompanyEmissions(nzId, NoYear)
  IN  IF Len(emissions) < 2 THEN <<>>
      ELSE changesFrom(Reverse(emissions), 2)

\* flatMap: one line per change tuple, year by year
RECURSIVE changeLines(_)
changeLines(methodologyChanges) ==
  IF methodologyChanges = <<>> THEN <<>>
  ELSE LET mc == Head(methodologyChanges)
       IN  [i \in DOMAIN mc.changes |->
              [year |-> mc.year,
               scope |-> mc.changes[i].scope,
               previousMethod |-> mc.changes[i].previousMethod,
               currentMethod |-> mc.changes[i].currentMethod]]
           \o changeLines(Tail(methodologyChanges))

\* no assessment: the company has no emissions row for the request
NoAssessment == [nz_id |-> Null]

getCompanyQualityAssessment(nzId, year) ==
  LET company == getCompanyById(nzId)
      emissions == getCompanyEmissions(nzId, year)
      methodologyChanges == detectMethodologyChanges(nzId)
  IN  IF Len(emissions) = 0
      THEN [assessment |-> NoAssessment,
            methodologyChanges |-> methodologyChanges,
            companyInfo |-> company]
      ELSE LET assessment == assessDataQuality(emissions[1])
               changed == Len(methodologyChanges) > 0
           IN  [assessment |->
                  [assessment EXCEPT
                     !.methodologyConsistent = ~changed,
                     !.methodologyChanges = changeLines(methodologyChanges),
                     !.warnings =
                       IF changed
                       THEN Append(@, [kind |-> "methodology_changes",
                                       text |-> ToString(Len(methodologyChanges))])
                       ELSE @],
                methodologyChanges |-> methodologyChanges,
                companyInfo |-> company]

(***************************************************************************)
(* db/queries.ts: comparison of several companies.                         *)
(***************************************************************************)

\* a message of a comparison, kept as its kind and the values it prints
Message(kind, detail) == [kind |-> kind, detail |-> detail]

NoDominantCategory == [num |-> Null]

\* the first category holding the largest reported value
maxCategory(emissions, withData) ==
  CHOOSE i \in withData :
    \A j \in withData :
      \/ emissions.scope3_cat[j] < emissions.scope3_cat[i]
      \/ (emissions.scope3_cat[j] = emissions.scope3_cat[i] /\ i <= j)

getScope3CoverageSummary(emissions) ==
  LET categoriesWithData ==
        {i \in Categories : emissions.scope3_cat[i] # Null /\ emissions.scope3_cat[i] > 0}
      totalValue == emissions.scope3_total
  IN  [categoriesReported |-> Cardinality(categoriesWithData),
       categoriesWithData |-> categoriesWithData,
       categoriesWithoutData |-> Categories \ categoriesWithData,
       totalValue |-> totalValue,
       dominantCategory |->
         IF categoriesWithData # {} /\ totalValue # Null /\ totalValue > 0
         THEN LET num == maxCategory(emissions, categoriesWithData)
              IN  [num |-> num,
                   value |-> emissions.scope3_cat[num],
                   percent |-> Rat(emissions.scope3_cat[num] * 100, totalValue)]
         ELSE NoDominantCategory]

\* no emissions row, no coverage summary
NoEmissions == [nz_id |-> Null]

NoCoverage == [categoriesReported |-> Null]

\* the entries compareCompaniesWithScope3 collects, in request order
RECURSIVE comparedCompanies(_, _)
comparedCompanies(nzIds, year) ==
  IF nzIds = <<>> THEN <<>>
  ELSE LET nzId == Head(nzIds)
           company == getCompanyById(nzId)
           rows == getCompanyEmissions(nzId, year)
           rest == comparedCompanies(Tail(nzIds), year)
       IN  IF company = NoCompany THEN rest
           ELSE << [company |-> company,
                    emissions |-> IF Len(rows) > 0 THEN rows[1] ELSE NoEmissions,
                    scope3Coverage |-> IF Len(rows) > 0
                                       THEN getScope3CoverageSummary(rows[1])
                                       ELSE NoCoverage] >> \o rest

Max(S) == CHOOSE x \in S : \A y \in S : y <= x

Min(S) == CHOOSE x \in S : \A y \in S : x <= y

\* the warnings and the result compareCompaniesWithScope3 builds from its entries
scope3Comparison(companies) ==
  LET withTotal == {i \in DOMAIN companies :
                      /\ companies[i].emissions # NoEmissions
                      /\ companies[i].emissions.scope3_total # Null
                      /\ companies[i].emissions.scope3_total > 0}
      scope3Totals == {companies[i].emissions.scope3_total : i \in withTotal}
      varianceWarning ==
        IF Cardinality(withTotal) >= 2 /\ Max(scope3Totals) > 10 * Min(scope3Totals)
        THEN << Message("scope3_variance", <<Min(scope3Totals), Max(scope3Totals)>>) >>
        ELSE <<>>
      withCoverage == {i \in DOMAIN companies : companies[i].scope3Coverage # NoCoverage}
      categoryCounts == {companies[i].scope3Coverage.categoriesReported : i \in withCoverage}
      coverageWarning ==
        IF Cardinality(withCoverage) >= 2 /\ Max(categoryCounts) - Min(categoryCounts) >= 5
        THEN << Message("category_coverage", <<Min(categoryCounts), Max(categoryCounts)>>) >>
        ELSE <<>>
  IN  [companies |-> companies,
       scope3VarianceWarning |-> varianceWarning,
       comparabilityWarnings |-> varianceWarning \o coverageWarning]

compareCompaniesWithScope3(nzIds, year) ==
  scope3Comparison(comparedCompanies(nzIds, year))

\* the name shown for an id without a company row
PlaceholderName(nzId) == <<"Company", nzId>>

\* the entries compareDataQuality collects, in request order
assessedCompanies(nzIds, year) ==
  [i \in DOMAIN nzIds |->
     LET assessed == getCompanyQualityAssessment(nzIds[i], year)
     IN  [nzId |-> nzIds[i],
          name |-> IF assessed.companyInfo # NoCompany
                   THEN assessed.companyInfo.company_name
                   ELSE PlaceholderName(nzIds[i]),
          assessment |-> assessed.assessment]]

\* the warnings and the result compareDataQuality builds from its entries
qualityComparison(companies) ==
  LET assessed == {i \in DOMAIN companies : companies[i].assessment # NoAssessment}
      boundaries == {companies[i].assessment.boundaryType : i \in
                       {j \in assessed : ~Falsy(companies[j].assessment.boundaryType)}}
      verifications == {companies[i].assessment.verificationType : i \in
                          {j \in assessed : ~Falsy(companies[j].assessment.verificationType)}}
      hasReasonable == \E v \in verifications : Includes(v, "reasonable")
      hasLimited == \E v \in verifications : Includes(v, "limited")
      hasNone == \E i \in DOMAIN companies :
                   i \notin assessed \/ Falsy(companies[i].assessment.verificationType)
      nonStandard == SelectSeq(companies,
                       LAMBDA c : c.assessment # NoAssessment
                                  /\ ~c.assessment.boundaryIsStandard)
  IN  [companies |-> companies,
       comparabilityWarnings |->
         (IF Cardinality(boundaries) > 1
          THEN << Message("boundaries_differ", boundaries) >> ELSE <<>>)
         \o (IF Cardinality(verifications) > 1 /\ hasReasonable /\ (hasLimited \/ hasNone)
             THEN << Message("verification_levels_differ", {}) >> ELSE <<>>)
         \o (IF Len(nonStandard) > 0
             THEN << Message("non_standard_boundaries",
                             [i \in DOMAIN nonStandard |-> nonStandard[i].name]) >>
             ELSE <<>>)]

compareDataQuality(nzIds, year) ==
  qualityComparison(assessedCompanies(nzIds, year))

\* the page size of listCompanies when the request gives none
DefaultLimit == 20

\* company names sort as the ids of their rows do
RECURSIVE ByName(_)
ByName(ids) ==
  IF ids = {} THEN <<>>
  ELSE <<Min(ids)>> \o ByName(ids \ {Min(ids)})

listCompanies(jurisdiction, sector) ==
  LET matching == {i \in DOMAIN store.companies :
                     /\ jurisdiction # NoFilter =>
                          store.companies[i].jurisdiction = jurisdiction
                     /\ sector # NoFilter => store.companies[i].sics_sector = sector}
      data == ByName(matching)
  IN  [j \in 1..(IF Len(data) < DefaultLimit THEN Len(data) ELSE DefaultLimit) |->
         store.companies[data[j]]]

(***************************************************************************)
(* index.ts: the nzdpu_benchmark and nzdpu_quality tool handlers.  A       *)
(* handler returns its text, kept here as the values the text prints, or   *)
(* throws, kept as a result of status "error".                             *)
(***************************************************************************)

Thrown(error, detail) == [status |-> "error", error |-> error, detail |-> detail]

\* Math.round of a non-negative fraction
Round(q) == (2 * q.num + q.den) \div (2 * q.den)

NoSection == [count |-> Null]

\* the block printed for one peer group
peerSection(stats, percentile) ==
  [count |-> stats.count,
   mean |-> Round(stats.mean),
   median |-> Round(stats.median),
   percentile |-> percentile]

benchmarkSingle(companyId, scope, year) ==
  LET bench == benchmarkCompany(companyId, scope, year)
  IN  IF bench = NoBenchmark THEN Thrown("not_found", companyId)
      ELSE [status |-> "ok",
            company_name |-> bench.company.company_name,
            scope |-> scope,
            year |-> bench.companyYear,
            companyValue |-> bench.companyValue,
            jurisdictionPeers |->
              IF bench.jurisdictionStats # NullStats
              THEN peerSection(bench.jurisdictionStats, bench.percentileInJurisdiction)
              ELSE NoSection,
            sectorPeers |->
              IF bench.sectorStats # NullStats
              THEN peerSection(bench.sectorStats, bench.percentileInSector)
              ELSE NoSection,
            combinedPeers |->
              IF bench.combinedStats # NullStats /\ bench.combinedStats.count >= 3
              THEN peerSection(bench.combinedStats, bench.percentileInCombined)
              ELSE NoSection]

\* [...new Set(allWarnings)]: the first occurrence of each message
RECURSIVE Deduplicated(_)
Deduplicated(messages) ==
  IF messages = <<>> THEN <<>>
  ELSE LET earlier == Deduplicated(SubSeq(messages, 1, Len(messages) - 1))
           last == messages[Len(messages)]
       IN  IF \E i \in DOMAIN earlier :
                earlier[i].kind = last.kind /\ earlier[i].detail = last.detail
           THEN earlier
           ELSE Append(earlier, last)

\* a cell of the emissions table: the value, or Null for the dash of no value
Cell(value) == value

\* one line of the emissions summary table
summaryLine(c) ==
  IF c.emissions # NoEmissions
  THEN [name |-> c.company.company_name,
        scope1 |-> Cell(c.emissions.scope1),
        scope2_lb |-> Cell(c.emissions.scope2_lb),
        scope2_mb |-> Cell(c.emissions.scope2_mb),
        scope3_total |-> Cell(c.emissions.scope3_total),
        categoriesReported |-> c.scope3Coverage.categoriesReported,
        year |-> c.emissions.year]
  ELSE [name |-> c.company.company_name,
        scope1 |-> Null, scope2_lb |-> Null, scope2_mb |-> Null,
        scope3_total |-> Null, categoriesReported |-> Null, year |-> Null]

\* one line of the data quality table
qualityLine(qc) ==
  IF qc.assessment # NoAssessment
  THEN [name |-> qc.name,
        boundary |-> qc.assessment.boundaryType,
        verification |-> qc.assessment.verificationType,
        quality |-> qc.assessment.overallScore]
  ELSE [name |-> qc.name, boundary |-> NullStr,
        verification |-> NullStr, quality |-> NullStr]

\* the text of a comparison, from the results of the two queries
comparisonText(results, qualityResults) ==
  [status |-> "ok",
   text |-> "Company Comparison",
   companiesAnalyzed |-> Len(results.companies),
   years |-> {results.companies[i].emissions.year :
                i \in {j \in DOMAIN results.companies :
                         results.companies[j].emissions # NoEmissions}},
   summary |-> [i \in DOMAIN results.companies |-> summaryLine(results.companies[i])],
   quality |-> [i \in DOMAIN qualityResults.companies |->
                  qualityLine(qualityResults.companies[i])],
   warnings |-> Deduplicated(results.comparabilityWarnings
                             \o qualityResults.comparabilityWarnings)]

\* the ids compared: those of the request, or else those the filters list
comparedIds(companyIds, listed) ==
  IF Len(companyIds) > 0 THEN companyIds
  ELSE [i \in DOMAIN listed |-> listed[i].nz_id]

compareIds(nzIds, year) ==
  IF Len(nzIds) = 0 THEN [status |-> "ok", text |-> "No companies found"]
  ELSE comparisonText(compareCompaniesWithScope3(nzIds, year),
                      compareDataQuality(nzIds, year))

benchmarkCompare(companyIds, jurisdiction, sector, year) ==
  compareIds(comparedIds(companyIds, listCompanies(jurisdiction, sector)), year)

benchmarkPeerStats(jurisdiction, sector, scope, year) ==
  IF jurisdiction = NoFilter /\ sector = NoFilter
  THEN Thrown("filter_required", scope)
  ELSE LET stats == getPeerStatistics(scope, Filters(jurisdiction, sector, year))
       IN  IF stats = NullStats
           THEN [status |-> "ok", text |-> "No data found", stats |-> NullStats]
           ELSE [status |-> "ok",
                 text |-> "Peer Group Statistics",
                 stats |-> stats,
                 count |-> stats.count,
                 mean |-> Round(stats.mean),
                 median |-> Round(stats.median),
                 min |-> stats.min,
                 max |-> stats.max,
                 percentile25 |-> stats.percentile25,
                 percentile75 |-> stats.percentile75]

quality(companyId, year) ==
  LET assessed == getCompanyQualityAssessment(companyId, year)
  IN  IF assessed.companyInfo = NoCompany THEN Thrown("not_found", companyId)
      ELSE IF assessed.assessment = NoAssessment
      THEN [status |-> "ok",
            company_name |-> assessed.companyInfo.company_name,
            text |-> "No emissions data available"]
      ELSE [status |-> "ok",
            company_name |-> assessed.companyInfo.company_name,
            text |-> "Data Quality Assessment",
            assessment |-> assessed.assessment,
            methodologyChanges |-> assessed.methodologyChanges,
            warnings |-> assessed.assessment.warnings]

(***************************************************************************)
(* api/client.ts and the benchmarking engine built on it.  The remote API  *)
(* serves the records of the store.  The store does not change, so what    *)
(* the client's cache returns is what a fresh lookup returns.              *)
(***************************************************************************)

parseEmissionValue(value) == IF value = Null THEN Undefined ELSE value

\* the year the client asks for when neither request nor profile names one
ClientDefaultYear == 2021

\* [] when the company or its disclosure of the year is missing
client_getCompanyEmissions(companyId, year) ==
  LET company == getCompanyById(companyId)
  IN  IF company = NoCompany THEN <<>>
      ELSE
        LET reportingYear == IF year # NoYear THEN year
                             ELSE IF company.latest_reported_year # Null
                                  THEN company.latest_reported_year
                                  ELSE ClientDefaultYear
            details == {e \in store.emissions :
                          e.nz_id = companyId /\ e.year = reportingYear}
        IN  IF details = {} THEN <<>>
            ELSE LET d == CHOOSE e \in details : TRUE
                 IN  << [company_id |-> companyId,
                         year |-> reportingYear,
                         scope1_emissions |-> parseEmissionValue(d.scope1),
                         scope1_methodology |-> d.scope1_methodology,
                         scope2_location_based |-> parseEmissionValue(d.scope2_lb),
                         scope2_market_based |-> parseEmissionValue(d.scope2_mb),
                         scope2_lb_methodology |-> d.scope2_lb_methodology,
                         scope2_mb_methodology |-> d.scope2_mb_methodology,
                         scope3_total |-> parseEmissionValue(d.scope3_total),
                         organizational_boundary |-> d.organizational_boundary] >>

\* the ids of the companies the API lists for the filters, in list order
client_listCompanies(jurisdiction, sector) ==
  ByName({i \in DOMAIN store.companies :
            /\ jurisdiction # NoFilter => store.companies[i].jurisdiction = jurisdiction
            /\ sector # NoFilter => store.companies[i].sics_sector = sector})

getEmissionValue(emissions, scope) ==
  CASE scope = "scope1" -> emissions.scope1_emissions
    [] scope = "scope2_lb" -> emissions.scope2_location_based
    [] scope = "scope2_mb" -> emissions.scope2_market_based
    [] scope = "scope3" -> emissions.scope3_total
    [] OTHER -> Undefined

\* getBatchEmissions followed by extractPeerValues, in the order of the ids
RECURSIVE extractPeerValues(_, _, _)
extractPeerValues(ids, year, scope) ==
  IF ids = <<>> THEN <<>>
  ELSE LET emissions == client_getCompanyEmissions(Head(ids), year)
           value == IF Len(emissions) > 0
                    THEN getEmissionValue(emissions[1], scope) ELSE Undefined
       IN  (IF value # Undefined /\ value # Null /\ value > 0 THEN <<value>> ELSE <<>>)
           \o extractPeerValues(Tail(ids), year, scope)

Without(ids, companyId) == SelectSeq(ids, LAMBDA id : id # companyId)

NoComparison == [peerCount |-> Null]

\* the fewest peers of an intersection benchmark
MinIntersectionPeers == 3

engine_benchmarkCompany(companyId, scope, year) ==
  LET companyProfile == getCompanyById(companyId)
      companyEmissions == client_getCompanyEmissions(companyId, year)
  IN  IF companyProfile = NoCompany THEN Thrown("not_found", companyId)
      ELSE IF Len(companyEmissions) = 0 THEN Thrown("no_emissions_data", companyId)
      ELSE
        LET latestEmissions == companyEmissions[1]
            emissionsYear == latestEmissions.year
            companyValue == getEmissionValue(latestEmissions, scope)
            jurisdiction == companyProfile.jurisdiction
            sics_sector == companyProfile.sics_sector
            jurisdictionValues ==
              extractPeerValues(
                Without(client_listCompanies(jurisdiction, NoFilter), companyId),
                emissionsYear, scope)
            sectorValues ==
              extractPeerValues(
                Without(client_listCompanies(NoFilter, sics_sector), companyId),
                emissionsYear, scope)
            otherPeers == Without(client_listCompanies(jurisdiction, sics_sector), companyId)
            intersectionValues == extractPeerValues(otherPeers, emissionsYear, scope)
            both == ~Falsy(jurisdiction) /\ ~Falsy(sics_sector)
        IN  IF companyValue = Undefined THEN Thrown("no_scope_data", companyId)
            ELSE
              [status |-> "ok",
               company |-> companyProfile,
               emissionsYear |-> emissionsYear,
               scope |-> scope,
               jurisdictionBenchmark |->
                 IF ~Falsy(jurisdiction) /\ Len(jurisdictionValues) > 0
                 THEN createPeerComparison("jurisdiction", companyValue, jurisdictionValues)
                 ELSE NoComparison,
               sectorBenchmark |->
                 IF ~Falsy(sics_sector) /\ Len(sectorValues) > 0
                 THEN createPeerComparison("sector", companyValue, sectorValues)
                 ELSE NoComparison,
               intersectionBenchmark |->
                 IF /\ both
                    /\ Len(otherPeers) >= MinIntersectionPeers
                    /\ Len(intersectionValues) >= MinIntersectionPeers
                 THEN createPeerComparison("intersection", companyValue, intersectionValues)
                 ELSE NoComparison,
               methodologyNotes |->
                 (IF scope = "scope2_lb"
                  THEN << Message("location_based_only", {}),
                          Message("peers_location_based", {}) >>
                       \o (IF TruthyStr(latestEmissions.scope2_lb_methodology)
                           THEN << Message("company_methodology", {}) >> ELSE <<>>)
                  ELSE IF scope = "scope2_mb"
                  THEN << Message("market_based_only", {}),
                          Message("peers_market_based", {}) >>
                       \o (IF TruthyStr(latestEmissions.scope2_mb_methodology)
                           THEN << Message("company_methodology", {}) >> ELSE <<>>)
                  ELSE <<>>)
                 \o (IF both /\ Len(otherPeers) < MinIntersectionPeers
                     THEN << Message("intersection_not_available", Len(otherPeers)) >>
                     ELSE IF both /\ Len(intersectionValues) < MinIntersectionPeers
                     THEN << Message("minimum_3_required", Len(intersectionValues)) >>
                     ELSE <<>>)]

engine_getPeerStatistics(jurisdiction, sicsSector, scope, year) ==
  IF jurisdiction = NoFilter /\ sicsSector = NoFilter
  THEN Thrown("filter_required", scope)
  ELSE LET peers == client_listCompanies(jurisdiction, sicsSector)
           peerValues == extractPeerValues(peers, year, scope)
       IN  [status |-> "ok",
            stats |-> calculatePeerStats(peerValues),
            peerCount |-> Len(peerValues),
            scope |-> scope,
            filters |-> Filters(jurisdiction, sicsSector, NoYear)]

(***************************************************************************)
(* The stores of SpecBench.  A company follows one reporting practice      *)
(* (its companies row and the descriptive columns of its emissions rows)   *)
(* and has disclosed a set of (year, scope1) pairs; the other value        *)
(* columns hold NULL.  Companies are listed in the order of their          *)
(* configuration, which names every store up to a renaming of the ids.     *)
(***************************************************************************)

ReportingPractices ==
  << [jurisdiction |-> "Japan", sics_sector |-> "Financials",
      organizational_boundary |-> "Operational control",
      verification_status |-> "Reasonable assurance",
      scope1_methodology |-> "GHG Protocol Corporate Standard"],
     [jurisdiction |-> "Japan", sics_sector |-> NullStr,
      organizational_boundary |-> "Company-defined",
      verification_status |-> "Limited assurance",
      scope1_methodology |-> NullStr],
     [jurisdiction |-> NullStr, sics_sector |-> "Financials",
      organizational_boundary |-> NullStr,
      verification_status |-> NullStr,
      scope1_methodology |-> "EPA Mandatory Reporting Rule"] >>

Disclosures ==
  << {}, {<<2022, Null>>}, {<<2022, 10>>}, {<<2022, 20>>}, {<<2022, 40>>},
     {<<2021, 10>>, <<2022, 20>>}, {<<2021, 10>>} >>

\* the (practice, disclosures) pairs a company can have
CompanyConfigs ==
  << <<1, 1>>, <<1, 2>>, <<1, 3>>, <<1, 4>>, <<1, 5>>, <<1, 6>>,
     <<2, 3>>, <<2, 6>>, <<2, 7>>, <<3, 1>>, <<3, 4>> >>

CompanyName(nzId) == <<"name", nzId>>

CompanyRow(nzId, practice, disclosed) ==
  [nz_id |-> nzId,
   company_name |-> CompanyName(nzId),
   jurisdiction |-> practice.jurisdiction,
   sics_sector |-> practice.sics_sector,
   latest_reported_year |->
     IF disclosed = {} THEN Null ELSE Max({d[1] : d \in disclosed})]

EmissionsRow(nzId, practice, year, scope1) ==
  [nz_id |-> nzId,
   year |-> year,
   scope1 |-> scope1,
   scope2_lb |-> Null,
   scope2_mb |-> Null,
   scope3_total |-> Null,
   scope3_cat |-> [c \in Categories |-> Null],
   scope3_cat_method |-> [c \in Categories |-> NullStr],
   organizational_boundary |-> practice.organizational_boundary,
   verification_status |-> practice.verification_status,
   scope1_methodology |-> practice.scope1_methodology,
   scope2_lb_methodology |-> NullStr,
   scope2_mb_methodology |-> NullStr]

StoreOf(config) ==
  [companies |->
     [i \in CompanyIds |->
        CompanyRow(i, ReportingPractices[CompanyConfigs[config[i]][1]],
                   Disclosures[CompanyConfigs[config[i]][2]])],
   emissions |->
     UNION {{EmissionsRow(i, ReportingPractices[CompanyConfigs[config[i]][1]], d[1], d[2]) :
               d \in Disclosures[CompanyConfigs[config[i]][2]]} : i \in CompanyIds}]

Stores ==
  {StoreOf(config) :
     config \in {c \in [CompanyIds -> DOMAIN CompanyConfigs] :
                   \A i \in CompanyIds : i < NumCompanies => c[i] <= c[i + 1]}}

JurisdictionFilters == {NoFilter, "Japan"}

SectorFilters == {NoFilter, "Financials"}

\* the most ids a comparison request names
MaxCompared == 2

\* the id lists of a comparison request; the empty list asks for the filters
ComparedIdLists ==
  {l \in SeqsUpTo(RequestableIds, MaxCompared) :
     \A i, j \in DOMAIN l : i # j => l[i] # l[j]}

InitBench ==
  /\ store \in Stores
  /\ call = NoCall
  /\ result = NoResult

BenchmarkSingle ==
  /\ Idle
  /\ \E companyId \in RequestableIds, scope \in BenchScopes, year \in RequestYears :
      /\ call' = [op |-> "nzdpu_benchmark", mode |-> "single",
                  company_id |-> companyId, scope |-> scope, year |-> year]
      /\ result' = benchmarkSingle(companyId, scope, year)
      /\ UNCHANGED store

BenchmarkCompare ==
  /\ Idle
  /\ \E companyIds \in ComparedIdLists, year \in RequestYears,
        jurisdiction \in JurisdictionFilters, sector \in SectorFilters :
      /\ Len(companyIds) > 0 => (jurisdiction = NoFilter /\ sector = NoFilter)
      /\ call' = [op |-> "nzdpu_benchmark", mode |-> "compare",
                  company_ids |-> companyIds, jurisdiction |-> jurisdiction,
                  sector |-> sector, year |-> year]
      /\ result' = benchmarkCompare(companyIds, jurisdiction, sector, year)
      /\ UNCHANGED store

BenchmarkPeerStats ==
  /\ Idle
  /\ \E jurisdiction \in JurisdictionFilters, sector \in SectorFilters,
        scope \in BenchScopes, year \in RequestYears :
      /\ call' = [op |-> "nzdpu_benchmark", mode |-> "peer_stats",
                  jurisdiction |-> jurisdiction, sector |-> sector,
                  scope |-> scope, year |-> year]
      /\ result' = benchmarkPeerStats(jurisdiction, sector, scope, year)
      /\ UNCHANGED store

Quality ==
  /\ Idle
  /\ \E companyId \in RequestableIds, year \in RequestYears :
      /\ call' = [op |-> "nzdpu_quality", company_id |-> companyId, year |-> year]
      /\ result' = quality(companyId, year)
      /\ UNCHANGED store

GetPeerStatistics ==
  /\ Idle
  /\ \E jurisdiction \in JurisdictionFilters, sector \in SectorFilters,
        scope \in BenchScopes, year \in RequestYears :
      /\ call' = [op |-> "db.getPeerStatistics", scope |-> scope,
                  filters |-> Filters(jurisdiction, sector, year)]
      /\ result' = getPeerStatistics(scope, Filters(jurisdiction, sector, year))
      /\ UNCHANGED store

BenchmarkCompany ==
  /\ Idle
  /\ \E nzId \in RequestableIds, scope \in BenchScopes, year \in RequestYears :
      /\ call' = [op |-> "db.benchmarkCompany",
                  nz_id |-> nzId, scope |-> scope, year |-> year]
      /\ result' = benchmarkCompany(nzId, scope, year)
      /\ UNCHANGED store

EngineBenchmarkCompany ==
  /\ Idle
  /\ \E companyId \in RequestableIds, scope \in BenchScopes, year \in RequestYears :
      /\ call' = [op |-> "engine.benchmarkCompany",
                  company_id |-> companyId, scope |-> scope, year |-> year]
      /\ result' = engine_benchmarkCompany(companyId, scope, year)
      /\ UNCHANGED store

EngineGetPeerStatistics ==
  /\ Idle
  /\ \E jurisdiction \in JurisdictionFilters, sector \in SectorFilters,
        scope \in BenchScopes, year \in RequestYears :
      /\ call' = [op |-> "engine.getPeerStatistics",
                  jurisdiction |-> jurisdiction, sector |-> sector,
                  scope |-> scope, year |-> year]
      /\ result' = engine_getPeerStatistics(jurisdiction, sector, scope, year)
      /\ UNCHANGED store

NextBench ==
  \/ GetPeerStatistics
  \/ BenchmarkCompany
  \/ BenchmarkSingle
  \/ BenchmarkCompare
  \/ BenchmarkPeerStats
  \/ Quality
  \/ EngineBenchmarkCompany
  \/ EngineGetPeerStatistics
  \/ Return

SpecBench == InitBench /\ [][NextBench]_vars

(***************************************************************************)
(* The two comparisons of the repository side by side: the pairwise check  *)
(* of comparability.ts and the compare mode of nzdpu_benchmark.  The       *)
(* stores are those of SpecBench in which only the last two companies      *)
(* have a configuration of their own.                                      *)
(***************************************************************************)

ComparisonStores ==
  {StoreOf(config) :
     config \in {c \in [CompanyIds -> DOMAIN CompanyConfigs] :
                   /\ \A i \in CompanyIds : i < NumCompanies - 1 => c[i] = 1
                   /\ c[NumCompanies - 1] <= c[NumCompanies]}}

InitComparison ==
  /\ store \in ComparisonStores
  /\ call = NoCall
  /\ result = NoResult

NextComparison ==
  \/ CheckEmissions
  \/ BenchmarkCompare
  \/ Return

SpecComparison == InitComparison /\ [][NextComparison]_vars

(***************************************************************************)
(* assessDataQuality applied to one emissions row.  The rows vary in the   *)
(* descriptive columns the assessment reads, in the value and the method   *)
(* of Scope 3 category 1 and in the Scope 3 total; the other categories    *)
(* are not reported.                                                       *)
(***************************************************************************)

QualityBoundaries ==
  {NullStr, "Operational control", "Financial control", "Equity share",
   "Equity share approach", "Company-defined"}

QualityVerifications == {NullStr, "Reasonable assurance", "Limited assurance"}

QualityMethodologies ==
  {NullStr, "GHG Protocol Corporate Standard", "EPA Mandatory Reporting Rule"}

\* the method names of a category: those of the classification table, no
\* name, the dash, and two names the table does not hold
CategoryMethods ==
  DOMAIN SCOPE3_METHOD_QUALITY \cup {NullStr, "-", "Spend based", "Other method"}

\* the values of a category: not reported, zero, small, at the bar of
\* significant emissions and above it
CategoryValues == {Null, 0, 10, SignificantEmissions, 2 * SignificantEmissions}

QualityRow(boundary, verification, methodology, value, method) ==
  [nz_id |-> 1,
   year |-> DefaultYear,
   scope1 |-> 10,
   scope2_lb |-> Null,
   scope2_mb |-> Null,
   scope3_total |-> value,
   scope3_cat |-> [c \in Categories |-> IF c = 1 THEN value ELSE Null],
   scope3_cat_method |-> [c \in Categories |-> IF c = 1 THEN method ELSE NullStr],
   organizational_boundary |-> boundary,
   verification_status |-> verification,
   scope1_methodology |-> methodology,
   scope2_lb_methodology |-> NullStr,
   scope2_mb_methodology |-> NullStr]

InitQuality ==
  /\ store = EmptyStore
  /\ call = NoCall
  /\ result = NoResult

\* the Scope 3 totals of a row: that of its category, none, and one below
\* the reported values of the category
QualityTotals(value) == {value, Null, 5}

AssessDataQuality ==
  /\ Idle
  /\ \E boundary \in QualityBoundaries, verification \in QualityVerifications,
        methodology \in QualityMethodologies, value \in CategoryValues,
        method \in CategoryMethods :
      \E total \in QualityTotals(value) :
        /\ call' = [op |-> "assessDataQuality",
                    emissions |-> [QualityRow(boundary, verification, methodology,
                                              value, method)
                                     EXCEPT !.scope3_total = total]]
        /\ result' = assessDataQuality([QualityRow(boundary, verification, methodology,
                                                   value, method)
                                          EXCEPT !.scope3_total = total])
        /\ UNCHANGED store

NextQuality ==
  \/ AssessDataQuality
  \/ Return

SpecQuality == InitQuality /\ [][NextQuality]_vars

(***************************************************************************)
(* detectMethodologyChanges over the history of one company.  The store    *)
(* holds company 1 with at most one emissions row per year of              *)
(* HistoryYears (the primary key of the table is (nz_id, year)); the rows  *)
(* vary in the columns the detection compares.                             *)
(***************************************************************************)

HistoryYears == {2020, 2021, 2022}

\* the reporting of a year: the Scope 1 methodology, the two Scope 2
\* methodologies, the boundary and the method of Scope 3 category 1
HistoryReportings ==
  [ scope1_methodology : {NullStr, "GHG Protocol Corporate Standard"},
    scope2_methodologies : {<<NullStr, NullStr>>,
                            <<"GHG Protocol Corporate Standard", NullStr>>,
                            <<NullStr, "GHG Protocol Corporate Standard">>},
    organizational_boundary : {NullStr, "Operational control", "Company-defined"},
    method : {NullStr, "Spend-based method", "Supplier-specific method"} ]

HistoryRow(nzId, year, reporting) ==
  [nz_id |-> nzId,
   year |-> year,
   scope1 |-> 10,
   scope2_lb |-> Null,
   scope2_mb |-> Null,
   scope3_total |-> Null,
   scope3_cat |-> [c \in Categories |-> Null],
   scope3_cat_method |->
     [c \in Categories |-> IF c = 1 THEN reporting.method ELSE NullStr],
   organizational_boundary |-> reporting.organizational_boundary,
   verification_status |-> NullStr,
   scope1_methodology |-> reporting.scope1_methodology,
   scope2_lb_methodology |-> reporting.scope2_methodologies[1],
   scope2_mb_methodology |-> reporting.scope2_methodologies[2]]

\* the histories: the years reported, and the reporting of each
Histories ==
  UNION {[years -> HistoryReportings] : years \in SUBSET HistoryYears}

HistoryStore(history) ==
  [companies |->
     << CompanyRow(1, ReportingPractices[1], {<<y, 10>> : y \in DOMAIN history}) >>,
   emissions |-> {HistoryRow(1, y, history[y]) : y \in DOMAIN history}]

InitChanges ==
  /\ store \in {HistoryStore(history) : history \in Histories}
  /\ call = NoCall
  /\ result = NoResult

DetectMethodologyChanges ==
  /\ Idle
  /\ \E nzId \in 1..2 :
      /\ call' = [op |-> "detectMethodologyChanges", nz_id |-> nzId]
      /\ result' = [changes |-> detectMethodologyChanges(nzId)]
      /\ UNCHANGED store

NextChanges ==
  \/ DetectMethodologyChanges
  \/ Return

SpecChanges == InitChanges /\ [][NextChanges]_vars

(***************************************************************************)
(* Trends: getPeerTrend with analyzeTrend, and compareYears with           *)
(* calculatePercentChange and calculateCAGR.  A quotient is a fraction     *)
(* num/den; a growth rate (ratio ^ (1 / years) - 1) * 100 is kept as its   *)
(* ratio and its number of years.  A number that is null is NullNumber.    *)
(***************************************************************************)

NullNumber == [num |-> Null]

RatMinus(a, b) == Rat(a.num * b.den - b.num * a.den, a.den * b.den)

RatPlus(a, b) == Rat(a.num * b.den + b.num * a.den, a.den * b.den)

\* a / b for b > 0
RatOver(a, b) == Rat(a.num * b.den, a.den * b.num)

GrowthRate(ratio, years) == [ratio |-> ratio, years |-> years]

\* a null year counts as 0 in the arithmetic of the year range
YearNumber(year) == IF year = Null THEN 0 ELSE year

\* the data point of a year from the values of the year in ascending order
trendDataPoint(year, sortedValues) ==
  LET count == Len(sortedValues)
      midpoint == count \div 2
  IN  [year |-> year,
       count |-> count,
       mean |-> Rat(Sum(sortedValues), count),
       median |-> IF count % 2 = 0
                  THEN Rat(sortedValues[midpoint] + sortedValues[midpoint + 1], 2)
                  ELSE Rat(sortedValues[midpoint + 1], 1),
       min |-> sortedValues[1],
       max |-> sortedValues[count],
       percentile25 |-> sortedValues[(count \div 4) + 1],
       percentile75 |-> sortedValues[((3 * count) \div 4) + 1]]

\* the data points of the years from..to that have values, in year order;
\* without rows no year has values
RECURSIVE trendDataPoints(_, _, _)
trendDataPoints(rows, from, to) ==
  IF from > to \/ rows = {} THEN <<>>
  ELSE LET ofYear == {e \in rows : e.year = from}
       IN  (IF ofYear = {} THEN <<>>
            ELSE << trendDataPoint(from, OrderedValues(ofYear, "value")) >>)
           \o trendDataPoints(rows, from + 1, to)

\* the sum of the year-over-year changes of the means from point i on
RECURSIVE totalYoYChange(_, _)
totalYoYChange(dataPoints, i) ==
  IF i > Len(dataPoints) THEN Rat(0, 1)
  ELSE RatPlus(RatMinus(dataPoints[i].mean, dataPoints[i - 1].mean),
               totalYoYChange(dataPoints, i + 1))

\* trendDirection that takes a change of exactly 5% for a trend
trendDirection_closedBand(meanChangePercent) ==
  IF RatLeq(Rat(5, 1), meanChangePercent) THEN "increasing"
  ELSE IF RatLeq(meanChangePercent, Rat(-5, 1)) THEN "decreasing"
  ELSE "stable"

\* the direction of a percent change against the 5% band
trendDirection(meanChangePercent) ==
  IF ~RatLeq(meanChangePercent, Rat(5, 1)) THEN "increasing"
  ELSE IF ~RatLeq(Rat(-5, 1), meanChangePercent) THEN "decreasing"
  ELSE "stable"

\* analyzeTrend that reports a single data point as a stable trend
analyzeTrend_singlePointStable(dataPoints) ==
  IF Len(dataPoints) < 1
  THEN [overallTrendDirection |-> "insufficient_data",
        meanChange |-> NullNumber,
        meanChangePercent |-> NullNumber,
        averageAnnualChange |-> NullNumber,
        averageAnnualGrowthRate |-> NullNumber]
  ELSE [overallTrendDirection |-> "stable",
        meanChange |-> Rat(0, 1),
        meanChangePercent |-> Rat(0, 1),
        averageAnnualChange |-> NullNumber,
        averageAnnualGrowthRate |-> NullNumber]

analyzeTrend(dataPoints) ==
  IF Len(dataPoints) < 2
  THEN [overallTrendDirection |-> "insufficient_data",
        meanChange |-> NullNumber,
        meanChangePercent |-> NullNumber,
        averageAnnualChange |-> NullNumber,
        averageAnnualGrowthRate |-> NullNumber]
  ELSE LET firstPoint == dataPoints[1]
           lastPoint == dataPoints[Len(dataPoints)]
           yearsApart == lastPoint.year - firstPoint.year
           meanChange == RatMinus(lastPoint.mean, firstPoint.mean)
           meanChangePercent ==
             RatOver(Rat(100 * meanChange.num, meanChange.den), firstPoint.mean)
           total == totalYoYChange(dataPoints, 2)
       IN  [overallTrendDirection |-> trendDirection(meanChangePercent),
            meanChange |-> meanChange,
            meanChangePercent |-> meanChangePercent,
            averageAnnualChange |-> Rat(total.num, total.den * (Len(dataPoints) - 1)),
            averageAnnualGrowthRate |->
              IF yearsApart > 0 /\ firstPoint.mean.num > 0
              THEN GrowthRate(RatOver(lastPoint.mean, firstPoint.mean), yearsApart)
              ELSE NullNumber]

\* the rows of the WHERE clause, each with the value of the scope's column
trendRows(scope, jurisdiction, sector) ==
  {[year |-> e.year, nz_id |-> e.nz_id, value |-> e[column(scope)]] :
     e \in peerRows(scope, Filters(jurisdiction, sector, NoYear))}

\* MIN(e.year) and MAX(e.year) of the rows: NULL when there is no row
minYear(rows) == IF rows = {} THEN Null ELSE Min({e.year : e \in rows})

maxYear(rows) == IF rows = {} THEN Null ELSE Max({e.year : e \in rows})

\* the aggregate query always returns a row, so the year range is never
\* missing and createEmptyTrendResult is not reached from getPeerTrend
getPeerTrend(scope, jurisdiction, sector, startYear, endYear) ==
  LET rows == trendRows(scope, jurisdiction, sector)
      start == IF startYear = NoYear THEN minYear(rows) ELSE startYear
      end == IF endYear = NoYear THEN maxYear(rows) ELSE endYear
  IN  [filters |-> [scope |-> scope, jurisdiction |-> jurisdiction,
                    sics_sector |-> sector],
       yearRange |-> [start |-> start, end |-> end,
                      totalYears |-> YearNumber(end) - YearNumber(start) + 1],
       dataPoints |-> trendDataPoints(rows, YearNumber(start), YearNumber(end)),
       analysis |-> analyzeTrend(trendDataPoints(rows, YearNumber(start),
                                                 YearNumber(end)))]

createEmptyTrendResult(scope, jurisdiction, sector, startYear, endYear) ==
  [filters |-> [scope |-> scope, jurisdiction |-> jurisdiction,
                sics_sector |-> sector],
   yearRange |-> [start |-> startYear, end |-> endYear,
                  totalYears |-> endYear - startYear + 1],
   dataPoints |-> <<>>,
   analysis |-> [overallTrendDirection |-> "insufficient_data",
                 meanChange |-> NullNumber,
                 meanChangePercent |-> NullNumber,
                 averageAnnualChange |-> NullNumber,
                 averageAnnualGrowthRate |-> NullNumber]]

\* calculatePercentChange without the test for an old value of 0
calculatePercentChange_zeroDivides(oldValue, newValue) ==
  IF oldValue = Null \/ newValue = Null THEN NullNumber
  ELSE Rat((newValue - oldValue) * 100, oldValue)

calculatePercentChange(oldValue, newValue) ==
  IF oldValue = Null \/ newValue = Null \/ oldValue = 0 THEN NullNumber
  ELSE Rat((newValue - oldValue) * 100, oldValue)

\* !value of a number column: NULL or 0
NoValue(value) == value = Null \/ value = 0

calculateCAGR(beginValue, endValue, yearsApart) ==
  IF NoValue(beginValue) \/ NoValue(endValue) \/ beginValue <= 0 \/ yearsApart <= 1
  THEN NullNumber
  ELSE GrowthRate(Rat(endValue, beginValue), yearsApart)

Abs(n) == IF n < 0 THEN -n ELSE n

\* compareYears returns null without the company or without either row
NoYearComparison == [nz_id |-> Null]

\* the figures of one scope in a comparison of two rows
scopeComparison(value1, value2, yearsApart) ==
  [year1 |-> value1,
   year2 |-> value2,
   delta |-> IF value1 # Null /\ value2 # Null THEN value2 - value1 ELSE Null,
   percent_change |-> calculatePercentChange(value1, value2),
   cagr |-> calculateCAGR(value1, value2, yearsApart)]

rowComparison(company, emissions1, emissions2, year1, year2) ==
  [nz_id |-> company.nz_id,
   company_name |-> company.company_name,
   year1 |-> year1,
   year2 |-> year2,
   yearsApart |-> Abs(year2 - year1),
   scopes |-> [scope \in BenchScopes |->
                 scopeComparison(emissions1[column(scope)], emissions2[column(scope)],
                                 Abs(year2 - year1))],
   boundary_year1 |-> emissions1.organizational_boundary,
   boundary_year2 |-> emissions2.organizational_boundary,
   boundary_changed |->
     emissions1.organizational_boundary # emissions2.organizational_boundary,
   verification_year1 |-> emissions1.verification_status,
   verification_year2 |-> emissions2.verification_status,
   verification_changed |->
     emissions1.verification_status # emissions2.verification_status]

compareYears(nzId, year1, year2) ==
  IF nzId \notin DOMAIN store.companies THEN NoYearComparison
  ELSE IF \/ getCompanyEmissions(nzId, year1) = <<>>
          \/ getCompanyEmissions(nzId, year2) = <<>>
  THEN NoYearComparison
  ELSE rowComparison(store.companies[nzId], getCompanyEmissions(nzId, year1)[1],
                     getCompanyEmissions(nzId, year2)[1], year1, year2)

(***************************************************************************)
(* The stores of SpecTrend: two companies over the years of TrendYears.    *)
(* Company 1 reports in Japan, company 2 without a jurisdiction; each has  *)
(* per year no row, or a row with one of the values of its column.         *)
(***************************************************************************)

TrendYears == {2020, 2021, 2022}

NoRow == -3

\* per company the Scope 1 values a row can hold
TrendValues == << {Null, 0, 19, 20, 21}, {23} >>

TrendHistories ==
  {<<h1, h2>> : h1 \in [TrendYears -> TrendValues[1] \cup {NoRow}],
                h2 \in [TrendYears -> TrendValues[2] \cup {NoRow}]}

TrendStore(history) ==
  [companies |->
     [i \in 1..2 |->
        CompanyRow(i, ReportingPractices[IF i = 1 THEN 1 ELSE 3],
                   {<<y, history[i][y]>> : y \in {x \in TrendYears : history[i][x] # NoRow}})],
   emissions |->
     UNION {{EmissionsRow(i, ReportingPractices[IF i = 1 THEN 1 ELSE 3], y, history[i][y]) :
               y \in {x \in TrendYears : history[i][x] # NoRow}} : i \in 1..2}]

InitTrend ==
  /\ store \in {TrendStore(history) : history \in TrendHistories}
  /\ call = NoCall
  /\ result = NoResult

GetPeerTrend ==
  /\ Idle
  /\ \E scope \in {"scope1", "scope3"}, jurisdiction \in JurisdictionFilters,
        startYear \in {NoYear} \cup TrendYears, endYear \in {NoYear} \cup TrendYears :
      /\ call' = [op |-> "getPeerTrend", scope |-> scope,
                  jurisdiction |-> jurisdiction, sector |-> NoFilter,
                  startYear |-> startYear, endYear |-> endYear]
      /\ result' = getPeerTrend(scope, jurisdiction, NoFilter, startYear, endYear)
      /\ UNCHANGED store

CompareYears ==
  /\ Idle
  /\ \E nzId \in 1..3, year1 \in TrendYears, year2 \in TrendYears :
      /\ call' = [op |-> "compareYears", nz_id |-> nzId,
                  year1 |-> year1, year2 |-> year2]
      /\ result' = compareYears(nzId, year1, year2)
      /\ UNCHANGED store

NextTrend ==
  \/ GetPeerTrend
  \/ CompareYears
  \/ Return

SpecTrend == InitTrend /\ [][NextTrend]_vars

(***************************************************************************)
(* Requests in flight together.  The shell awaits every request, so        *)
(* several can be in progress: a db function runs to completion            *)
(* (better-sqlite3 is synchronous), an engine function gives way to the    *)
(* other requests at every await of the API client.  What the requests     *)
(* share is the connection of getDatabase and the client with its          *)
(* SimpleCache.  The store carries both, and the clock the cache reads;    *)
(* call and result hold one entry per request slot.  Company listings and  *)
(* profiles are looked up afresh; the emissions entries go through the     *)
(* cache.                                                                  *)
(***************************************************************************)

\* SimpleCache.set: the entry replaces the one of the key
SimpleCache_set(cache, key, data, ttlMs, now) ==
  [k \in DOMAIN cache \cup {key} |->
     IF k = key THEN [data |-> data, timestamp |-> now, ttl |-> ttlMs] ELSE cache[k]]

SimpleCache_delete(cache, key) == [k \in DOMAIN cache \ {key} |-> cache[k]]

\* the age test of get and has, one unit of time late
SimpleCache_expired_late(entry, now) == now - entry.timestamp > entry.ttl + 1

SimpleCache_expired(entry, now) == now - entry.timestamp > entry.ttl

\* SimpleCache.get: found is FALSE where the method returns null
SimpleCache_get(cache, key, now) ==
  IF key \notin DOMAIN cache
  THEN [found |-> FALSE, data |-> <<>>, cache |-> cache]
  ELSE IF SimpleCache_expired(cache[key], now)
  THEN [found |-> FALSE, data |-> <<>>, cache |-> SimpleCache_delete(cache, key)]
  ELSE [found |-> TRUE, data |-> cache[key].data, cache |-> cache]

\* SimpleCache.has
SimpleCache_has(cache, key, now) ==
  IF key \notin DOMAIN cache
  THEN [found |-> FALSE, cache |-> cache]
  ELSE IF SimpleCache_expired(cache[key], now)
  THEN [found |-> FALSE, cache |-> SimpleCache_delete(cache, key)]
  ELSE [found |-> TRUE, cache |-> cache]

\* SimpleCache.clear
SimpleCache_clear(cache) == [k \in {} |-> cache[k]]

\* the time to live of an emissions entry, in milliseconds
EmissionsTtlMs == 300000

emissionsCacheKey_ignoringYear(companyId, reportingYear) == <<companyId, NoYear>>

\* `emissions:${companyId}:${reportingYear}`; the batch writes 'latest'
\* for a request without a year, here NoYear
emissionsCacheKey(companyId, reportingYear) == <<companyId, reportingYear>>

\* getCompanyEmissions: the year of the entry it reads and writes
reportingYearOf(companyId, year) ==
  LET company == getCompanyById(companyId)
  IN  IF year # NoYear THEN year
      ELSE IF company.latest_reported_year # Null THEN company.latest_reported_year
      ELSE ClientDefaultYear

\* getBatchEmissions, the cache check of every id: the entries found,
\* the ids left to fetch and the cache after the reads
RECURSIVE batchCacheCheck(_, _, _, _)
batchCacheCheck(cache, ids, year, now) ==
  IF ids = <<>> THEN [cache |-> cache, cached |-> <<>>, uncachedIds |-> <<>>]
  ELSE LET read == SimpleCache_get(cache, emissionsCacheKey(Head(ids), year), now)
           rest == batchCacheCheck(read.cache, Tail(ids), year, now)
       IN  [cache |-> rest.cache,
            cached |-> (IF read.found THEN <<read.data>> ELSE <<>>) \o rest.cached,
            uncachedIds |-> (IF read.found THEN <<>> ELSE <<Head(ids)>>) \o rest.uncachedIds]

\* extractPeerValues over the entries of the map, in insertion order
RECURSIVE mapPeerValues(_, _)
mapPeerValues(emissionsMap, scope) ==
  IF emissionsMap = <<>> THEN <<>>
  ELSE LET emissions == Head(emissionsMap)
           value == IF Len(emissions) > 0
                    THEN getEmissionValue(emissions[1], scope) ELSE Undefined
       IN  (IF value # Undefined /\ value # Null /\ value > 0 THEN <<value>> ELSE <<>>)
           \o mapPeerValues(Tail(emissionsMap), scope)

\* the requests the shell has in flight at a time
MaxInFlight == 2

Slots == 1..MaxInFlight

\* how often the entries of the cache outlive their time to live
MaxExpiries == 1

\* getDatabase: the connection is opened by the first query and kept
getDatabase(dbInstance) == IF dbInstance = NullStr THEN "open" ELSE dbInstance

SharedStore(config) ==
  [companies |-> StoreOf(config).companies,
   emissions |-> StoreOf(config).emissions,
   dbInstance |-> NullStr,
   cache |-> [k \in {} |-> <<>>],
   now |-> 0]

\* two companies report in Japan, the others nowhere and nothing
SharedConfigs ==
  {c \in [CompanyIds -> {5, 6, 10}] :
     /\ \A i \in CompanyIds : i < NumCompanies - 1 => c[i] = 10
     /\ c[NumCompanies - 1] # 10 /\ c[NumCompanies] # 10
     /\ c[NumCompanies - 1] <= c[NumCompanies]}

SharedYears == {NoYear, 2021, 2022}

InitShared ==
  /\ store \in {SharedStore(config) : config \in SharedConfigs}
  /\ call = [s \in Slots |-> NoCall]
  /\ result = [s \in Slots |-> NoResult]

\* a db request: one synchronous call on the shared connection
DbRequest(s, request, returned) ==
  /\ call[s] = NoCall
  /\ call' = [call EXCEPT ![s] = request]
  /\ result' = [result EXCEPT ![s] = returned]
  /\ store' = [store EXCEPT !.dbInstance = getDatabase(@)]

SharedBenchmarkCompany ==
  \E s \in Slots, nzId \in {NumCompanies, NumCompanies + 1}, year \in SharedYears :
    DbRequest(s, [op |-> "db.benchmarkCompany", nz_id |-> nzId,
                  scope |-> "scope1", year |-> year],
              benchmarkCompany(nzId, "scope1", year))

SharedQualityAssessment ==
  \E s \in Slots, nzId \in {NumCompanies, NumCompanies + 1}, year \in SharedYears :
    DbRequest(s, [op |-> "db.getCompanyQualityAssessment", nz_id |-> nzId, year |-> year],
              getCompanyQualityAssessment(nzId, year))

SharedCompareYears ==
  \E s \in Slots, nzId \in {NumCompanies, NumCompanies + 1} :
    DbRequest(s, [op |-> "db.compareYears", nz_id |-> nzId,
                  year1 |-> 2021, year2 |-> 2022],
              compareYears(nzId, 2021, 2022))

\* engine getPeerStatistics up to its first await; without a filter it throws
EngineBegin ==
  \E s \in Slots, jurisdiction \in JurisdictionFilters, year \in SharedYears :
    /\ call[s] = NoCall
    /\ call' = [call EXCEPT ![s] =
                  [op |-> "engine.getPeerStatistics", jurisdiction |-> jurisdiction,
                   sector |-> NoFilter, scope |-> "scope1", year |-> year,
                   pc |-> IF jurisdiction = NoFilter THEN "done" ELSE "list"]]
    /\ result' = [result EXCEPT ![s] =
                    IF jurisdiction = NoFilter
                    THEN Thrown("filter_required", "scope1") ELSE NoResult]
    /\ UNCHANGED store

\* the listing has arrived: no peers, or getBatchEmissions up to its first await
EngineBatch ==
  \E s \in Slots :
    /\ call[s] # NoCall /\ call[s].op = "engine.getPeerStatistics" /\ call[s].pc = "list"
    /\ LET peers == client_listCompanies(call[s].jurisdiction, call[s].sector)
           check == batchCacheCheck(store.cache, peers, call[s].year, store.now)
       IN  IF Len(peers) = 0
           THEN /\ call' = [call EXCEPT ![s].pc = "done"]
                /\ result' = [result EXCEPT ![s] =
                                [status |-> "ok",
                                 stats |-> calculatePeerStats(<<>>),
                                 peerCount |-> 0,
                                 scope |-> call[s].scope,
                                 filters |-> Filters(call[s].jurisdiction,
                                                     call[s].sector, NoYear)]]
                /\ UNCHANGED store
           ELSE /\ call' = [call EXCEPT ![s] =
                              [op |-> "engine.getPeerStatistics",
                               jurisdiction |-> call[s].jurisdiction,
                               sector |-> call[s].sector, scope |-> call[s].scope,
                               year |-> call[s].year, pc |-> "fetch",
                               cached |-> check.cached,
                               uncachedIds |-> check.uncachedIds,
                               inFlight |-> {},
                               fetched |-> [i \in {} |-> <<>>]]]
                /\ store' = [store EXCEPT !.cache = check.cache]
                /\ UNCHANGED result

\* getCompanyEmissions of one id of the batch, up to the request for the
\* disclosure: the profile has arrived and the cache is read
EngineLookup ==
  \E s \in Slots :
    /\ call[s] # NoCall /\ call[s].op = "engine.getPeerStatistics" /\ call[s].pc = "fetch"
    /\ \E id \in Range(call[s].uncachedIds) \ (call[s].inFlight \cup DOMAIN call[s].fetched) :
         LET key == emissionsCacheKey(id, reportingYearOf(id, call[s].year))
             read == SimpleCache_get(store.cache, key, store.now)
         IN  /\ store' = [store EXCEPT !.cache = read.cache]
             /\ call' = [call EXCEPT ![s] =
                           IF read.found
                           THEN [@ EXCEPT !.fetched =
                                   [i \in DOMAIN @ \cup {id} |->
                                      IF i = id THEN read.data ELSE @[i]]]
                           ELSE [@ EXCEPT !.inFlight = @ \cup {id}]]
             /\ UNCHANGED result

\* the disclosure has arrived: the entry is written and returned; a
\* company without one yields [] and writes nothing
EngineFill ==
  \E s \in Slots :
    /\ call[s] # NoCall /\ call[s].op = "engine.getPeerStatistics" /\ call[s].pc = "fetch"
    /\ \E id \in call[s].inFlight :
         LET data == client_getCompanyEmissions(id, call[s].year)
             key == emissionsCacheKey(id, reportingYearOf(id, call[s].year))
         IN  /\ store' = [store EXCEPT !.cache =
                            IF Len(data) > 0
                            THEN SimpleCache_set(@, key, data, EmissionsTtlMs, store.now)
                            ELSE @]
             /\ call' = [call EXCEPT ![s] =
                           [@ EXCEPT !.inFlight = @ \ {id},
                                     !.fetched = [i \in DOMAIN @ \cup {id} |->
                                                    IF i = id THEN data ELSE @[i]]]]
             /\ UNCHANGED result

\* every fetch of the batch has returned: the map holds the cached entries
\* and then the fetched ones, and the statistics are taken over it
EngineComplete ==
  \E s \in Slots :
    /\ call[s] # NoCall /\ call[s].op = "engine.getPeerStatistics" /\ call[s].pc = "fetch"
    /\ Range(call[s].uncachedIds) = DOMAIN call[s].fetched
    /\ LET emissionsMap ==
             call[s].cached \o [i \in 1..Len(call[s].uncachedIds) |->
                                  call[s].fetched[call[s].uncachedIds[i]]]
           peerValues == mapPeerValues(emissionsMap, call[s].scope)
       IN  /\ result' = [result EXCEPT ![s] =
                           [status |-> "ok",
                            stats |-> calculatePeerStats(peerValues),
                            peerCount |-> Len(peerValues),
                            scope |-> call[s].scope,
                            filters |-> Filters(call[s].jurisdiction,
                                                call[s].sector, NoYear)]]
           /\ call' = [call EXCEPT ![s].pc = "done"]
           /\ UNCHANGED store

\* the shell has the answer of the request of a slot
SharedReturn ==
  \E s \in Slots :
    /\ result[s] # NoResult
    /\ call' = [call EXCEPT ![s] = NoCall]
    /\ result' = [result EXCEPT ![s] = NoResult]
    /\ UNCHANGED store

\* the entries of the cache outlive their time to live
Elapse ==
  /\ store.now < MaxExpiries * (EmissionsTtlMs + 1)
  /\ store' = [store EXCEPT !.now = @ + EmissionsTtlMs + 1]
  /\ UNCHANGED <<call, result>>

NextShared ==
  \/ SharedBenchmarkCompany
  \/ SharedQualityAssessment
  \/ SharedCompareYears
  \/ EngineBegin
  \/ EngineBatch
  \/ EngineLookup
  \/ EngineFill
  \/ EngineComplete
  \/ SharedReturn
  \/ Elapse

SpecShared == InitShared /\ [][NextShared]_vars

(***************************************************************************)
(* The cache of the API client on its own: set, get, has and clear called  *)
(* one at a time on a few keys while the clock advances between the        *)
(* calls.  The store holds the Map of the cache and the clock; a call of   *)
(* get or has records the entry it read from the Map.                      *)
(***************************************************************************)

\* the latest time of the clock
MaxTime == 4

CacheKeys == {"emissions:1:2021", "emissions:1:2022"}

CacheData == {"a", "b"}

\* the times to live entries are stored with
CacheTtls == {1, 2}

\* Map.get of a key the Map does not hold
NoEntry == [timestamp |-> Null]

entryOf(cache, key) == IF key \in DOMAIN cache THEN cache[key] ELSE NoEntry

InitCache ==
  /\ store = [cache |-> [k \in {} |-> NoEntry], now |-> 0]
  /\ call = NoCall
  /\ result = NoResult

CacheSet ==
  /\ Idle
  /\ \E key \in CacheKeys, data \in CacheData, ttlMs \in CacheTtls :
      /\ call' = [op |-> "set", key |-> key, data |-> data, ttlMs |-> ttlMs]
      /\ result' = [status |-> "ok"]
      /\ store' = [store EXCEPT
                     !.cache = SimpleCache_set(@, key, data, ttlMs, store.now)]

CacheGet ==
  /\ Idle
  /\ \E key \in CacheKeys :
      /\ call' = [op |-> "get", key |-> key, entry |-> entryOf(store.cache, key)]
      /\ result' = [found |-> SimpleCache_get(store.cache, key, store.now).found,
                    data |-> SimpleCache_get(store.cache, key, store.now).data]
      /\ store' = [store EXCEPT
                     !.cache = SimpleCache_get(@, key, store.now).cache]

CacheHas ==
  /\ Idle
  /\ \E key \in CacheKeys :
      /\ call' = [op |-> "has", key |-> key, entry |-> entryOf(store.cache, key)]
      /\ result' = [found |-> SimpleCache_has(store.cache, key, store.now).found]
      /\ store' = [store EXCEPT
                     !.cache = SimpleCache_has(@, key, store.now).cache]

CacheClear ==
  /\ Idle
  /\ call' = [op |-> "clear"]
  /\ result' = [status |-> "ok"]
  /\ store' = [store EXCEPT !.cache = SimpleCache_clear(@)]

\* time passes between two calls
Tick ==
  /\ Idle
  /\ store.now < MaxTime
  /\ store' = [store EXCEPT !.now = @ + 1]
  /\ UNCHANGED <<call, result>>

\* the call returns; the cache and the clock stay
CacheReturn ==
  /\ ~Idle
  /\ call' = NoCall
  /\ result' = NoResult
  /\ UNCHANGED store

NextCache ==
  \/ CacheSet
  \/ CacheGet
  \/ CacheHas
  \/ CacheClear
  \/ Tick
  \/ CacheReturn

SpecCache == InitCache /\ [][NextCache]_vars

(***************************************************************************)
(* Properties of the comparability checker (SpecCompare)                   *)
(***************************************************************************)

CompareOps ==
  {"checkScope2Comparability", "checkEmissionsComparability",
   "validateComparisonRequest"}

OnlyLocationBased(e) ==
  e.scope2_location_based # Undefined /\ e.scope2_market_based = Undefined

OnlyMarketBased(e) ==
  e.scope2_market_based # Undefined /\ e.scope2_location_based = Undefined

DifferentVariants(e1, e2) ==
  \/ OnlyLocationBased(e1) /\ OnlyMarketBased(e2)
  \/ OnlyMarketBased(e1) /\ OnlyLocationBased(e2)

HasWarning(r, type) == \E i \in DOMAIN r.warnings : r.warnings[i].type = type

HasBlockingWarning(r) ==
  \E i \in DOMAIN r.warnings : r.warnings[i].severity = "error"

Blocked(r) == r.isComparable = FALSE /\ HasWarning(r, "scope2_mismatch")

\* a request to compare the Scope 2 figures of exactly two companies, both
\* with a record, one reporting only one variant and the other only the other
RequestOfDifferentVariants ==
  /\ call.op = "validateComparisonRequest"
  /\ call.scope \in {"scope2", "scope2_lb", "scope2_mb"}
  /\ Len(call.companyIds) = 2
  /\ Range(call.companyIds) \subseteq DOMAIN call.emissionsData
  /\ DifferentVariants(call.emissionsData[call.companyIds[1]],
                       call.emissionsData[call.companyIds[2]])

\* C1: comparing a set that reports only location-based Scope 2 with one that
\* reports only market-based Scope 2 always gives isComparable = FALSE and a
\* methodology-mismatch warning, whatever the boundaries and the periods.
C1_DifferentVariantsBlocked ==
  /\ (call.op = "checkScope2Comparability"
        /\ call.methodology1 # call.methodology2) => Blocked(result)
  /\ (call.op = "checkEmissionsComparability"
        /\ DifferentVariants(call.emissions1, call.emissions2)) => Blocked(result)
  /\ RequestOfDifferentVariants => Blocked(result)

\* C2: a comparison result has isComparable = FALSE if and only if its warning
\* list holds at least one warning of severity error.
C2_IncomparableIffBlockingWarning ==
  call.op \in CompareOps =>
    (result.isComparable = FALSE <=> HasBlockingWarning(result))

\* a pairwise check that returned advisory warnings and a blocking one
C2_Witness ==
  /\ call.op = "checkEmissionsComparability"
  /\ result.isComparable = FALSE
  /\ HasBlockingWarning(result)
  /\ HasWarning(result, "year_mismatch")

\* the rules of validateComparisonRequest whose own condition holds
ApplicableRequestRules(companyIds, scope, emissionsData) ==
  (IF Len(missingData(companyIds, emissionsData)) > 0
   THEN {<<"data_quality", "error">>} ELSE {})
  \cup (IF scope = "scope2" THEN {<<"scope2_mismatch", "warning">>} ELSE {})
  \cup (IF scope \in {"scope2_lb", "scope2_mb"} /\ hasOther(scope, emissionsData) # {}
        THEN {<<"scope2_mismatch", "error">>} ELSE {})

\* the rules of checkEmissionsComparability whose own condition holds
ApplicablePairRules(e1, e2) ==
  (IF e1.year # e2.year THEN {<<"year_mismatch", "warning">>} ELSE {})
  \cup (IF /\ e1.organizational_boundary # e2.organizational_boundary
           /\ TruthyStr(e1.organizational_boundary)
           /\ TruthyStr(e2.organizational_boundary)
        THEN {<<"boundary_mismatch", "warning">>} ELSE {})
  \cup (IF /\ TruthyStr(e1.scope1_methodology) /\ TruthyStr(e2.scope1_methodology)
           /\ e1.scope1_methodology # e2.scope1_methodology
        THEN {<<"methodology_mismatch", "info">>} ELSE {})
  \cup (IF mixedComparison(e1, e2) THEN {<<"scope2_mismatch", "error">>} ELSE {})

ReportedRules(r) ==
  {<<r.warnings[i].type, r.warnings[i].severity>> : i \in DOMAIN r.warnings}

\* C3: the returned warning list holds the warning of every rule whose
\* condition holds for the request, also when a blocking rule fires.
C3_NoRuleSuppressed ==
  /\ call.op = "validateComparisonRequest" =>
       ApplicableRequestRules(call.companyIds, call.scope, call.emissionsData)
         \subseteq ReportedRules(result)
  /\ call.op = "checkEmissionsComparability" =>
       ApplicablePairRules(call.emissions1, call.emissions2)
         \subseteq ReportedRules(result)

\* the value a record reports for the metric a request names
RequestedMetric(e, scope) ==
  CASE scope = "scope1" -> e.scope1_emissions
    [] scope = "scope2_lb" -> e.scope2_location_based
    [] scope = "scope2_mb" -> e.scope2_market_based
    [] scope = "scope3" -> e.scope3_total

LacksMetric(id, scope, emissionsData) ==
  \/ id \notin DOMAIN emissionsData
  \/ RequestedMetric(emissionsData[id], scope) = Undefined

\* C4: when a side of the comparison lacks the requested metric entirely, the
\* result carries a blocking warning and isComparable = FALSE.
C4_MissingMetricBlocks ==
  (/\ call.op = "validateComparisonRequest"
   /\ call.scope \in {"scope1", "scope2_lb", "scope2_mb", "scope3"}
   /\ Len(call.companyIds) >= 2
   /\ \E id \in Range(call.companyIds) :
        LacksMetric(id, call.scope, call.emissionsData))
  => (result.isComparable = FALSE /\ HasBlockingWarning(result))

(***************************************************************************)
(* Properties of the statistics (SpecStats)                                *)
(***************************************************************************)

\* the statistics a call of SpecStats has returned, if it returns statistics
ReturnedStats ==
  IF call.op = "createPeerComparison" THEN result.stats ELSE result

\* C9: for every non-empty sample the statistics satisfy
\* min <= percentile25 <= median <= percentile75 <= max.
C9_QuartilesOrdered ==
  (call.op \in {"calculatePeerStats", "createPeerComparison", "getPeerStatistics"}
     /\ Len(call.values) > 0)
  => LET st == ReturnedStats
     IN  /\ st.min <= st.percentile25
         /\ RatLeq(Rat(st.percentile25, 1), st.median)
         /\ RatLeq(st.median, Rat(st.percentile75, 1))
         /\ st.percentile75 <= st.max

\* an unsorted sample with spread-out quartiles has been summarised
C9_Witness ==
  /\ call.op = "calculatePeerStats"
  /\ Len(call.values) = MaxSample
  /\ ~IsAscending(call.values)
  /\ result.min < result.percentile25
  /\ result.percentile25 < result.percentile75
  /\ result.percentile75 <= result.max

\* the queried value is the median of the queried sample, whose size is odd
MedianOfOddSampleQueried ==
  /\ call.op = "calculatePercentileRank"
  /\ Len(call.values) % 2 = 1
  /\ RatEq(Rat(call.value, 1), calculatePeerStats(call.values).median)

AsManyBelowAsAbove(value, values) ==
  belowCount(value, values)
    = Cardinality({i \in DOMAIN values : values[i] > value})

\* C10 as stated: for every sample of odd size, the percentile rank of the
\* sample's own median is exactly 50.
C10_MedianRankIs50 ==
  MedianOfOddSampleQueried => RatEq(result, Rat(50, 1))

\* C10 as amended: for every sample of odd size with as many values below its
\* median as above it (every sample of distinct values is one), the percentile
\* rank of the median is exactly 50.
C10_BalancedMedianRankIs50 ==
  (MedianOfOddSampleQueried /\ AsManyBelowAsAbove(call.value, call.values))
  => RatEq(result, Rat(50, 1))

\* the median of an odd sample of distinct, unsorted values has been ranked
C10_Witness ==
  /\ MedianOfOddSampleQueried
  /\ Len(call.values) >= 3
  /\ \A i, j \in DOMAIN call.values : i # j => call.values[i] # call.values[j]
  /\ ~IsAscending(call.values)
  /\ RatEq(result, Rat(50, 1))

\* C11: for a fixed sample the percentile rank is non-decreasing in the
\* queried value, for the mid-rank of calculatePercentileRank and for the
\* interpolated rank of calcPercentile.
C11_RankNonDecreasing ==
  /\ call.op = "calculatePercentileRank"
     => \A v1 \in Magnitudes :
          v1 <= call.value
          => RatLeq(calculatePercentileRank(v1, call.values), result)
  /\ call.op = "calcPercentile"
     => \A v1 \in Magnitudes \ {0} :
          (v1 <= call.value /\ result # Null)
          => LET lower == calcPercentile(v1, peerStatisticsOfRows(call.values))
             IN  lower # Null /\ lower <= result

\* a value ranked strictly above a smaller one, in a sample that holds ties
C11_Witness ==
  /\ call.op = "calculatePercentileRank"
  /\ \E i, j \in DOMAIN call.values : i # j /\ call.values[i] = call.values[j]
  /\ \E v1 \in Magnitudes :
       /\ v1 < call.value
       /\ ~RatLeq(result, calculatePercentileRank(v1, call.values))

(***************************************************************************)
(* Properties of the store queries, the handlers and the engine            *)
(* (SpecBench)                                                             *)
(***************************************************************************)

\* the mode of the handler call in progress
HandlerMode ==
  IF call.op = "nzdpu_quality" THEN "quality"
  ELSE IF call.op = "nzdpu_benchmark" THEN call.mode
  ELSE "none"

\* the ids the handler call names
NamedIds ==
  IF HandlerMode = "compare" THEN Range(call.company_ids) ELSE {call.company_id}

NamesUnknownEntity == \E id \in NamedIds : id \notin DOMAIN store.companies

\* the call names a year of which the store has no record at all
NamesUnknownPeriod ==
  call.year # NoYear /\ \A e \in store.emissions : e.year # call.year

\* C5: a single, compare or quality request that names an entity or a period
\* that is not in the store fails with a not-found error.
C5_UnknownSurfacedAsNotFound ==
  (HandlerMode \in {"single", "compare", "quality"}
     /\ (NamesUnknownEntity \/ NamesUnknownPeriod))
  => (result.status = "error" /\ result.error = "not_found")

\* the sample of the cohort a benchmark of the company forms with the filters
CohortSample(scope, filters) == OrderedValues(peerRows(scope, filters), column(scope))

IsMidRank(reported, value, sample) ==
  /\ reported # Null
  /\ RatEq(Rat(reported, 1), calculatePercentileRank(value, sample))

\* C6: every percentile rank a benchmark reports for a focal value is
\* (countBelow + 0.5 * countEqual) / n * 100 over the sample of that cohort,
\* and 0 for an empty sample.
C6_ReportedRankIsMidRank ==
  /\ (call.op = "db.benchmarkCompany" /\ result # NoBenchmark /\ result.companyValue # Null)
     => LET company == result.company
            year == result.companyYear
            value == result.companyValue
        IN  /\ ~Falsy(company.jurisdiction)
                 => IsMidRank(result.percentileInJurisdiction, value,
                      CohortSample(call.scope,
                                   Filters(company.jurisdiction, NoFilter, year)))
            /\ ~Falsy(company.sics_sector)
                 => IsMidRank(result.percentileInSector, value,
                      CohortSample(call.scope,
                                   Filters(NoFilter, company.sics_sector, year)))
            /\ (~Falsy(company.jurisdiction) /\ ~Falsy(company.sics_sector))
                 => IsMidRank(result.percentileInCombined, value,
                      CohortSample(call.scope,
                                   Filters(company.jurisdiction, company.sics_sector, year)))
  /\ (call.op = "engine.benchmarkCompany" /\ result.status = "ok")
     => \A group \in {result.jurisdictionBenchmark, result.sectorBenchmark,
                      result.intersectionBenchmark} :
          group # NoComparison
          => \E sample \in SeqsUpTo({10, 20, 40}, NumCompanies) :
               /\ Len(sample) = group.peerCount
               /\ group.stats = calculatePeerStats(sample)
               /\ group.percentileRank =
                    calculatePercentileRank(group.companyValue, sample)

\* C7: statistics of a cohort in which no company has data for the metric are
\* the zero-count result: count 0 and every other field 0.
C7_EmptyCohortZeroCount ==
  /\ (call.op = "db.getPeerStatistics" /\ peerRows(call.scope, call.filters) = {})
     => result = EmptyStats
  /\ (HandlerMode = "peer_stats"
        /\ (call.jurisdiction # NoFilter \/ call.sector # NoFilter)
        /\ peerRows(call.scope, Filters(call.jurisdiction, call.sector, call.year)) = {})
     => (result.status = "ok" /\ result.stats = EmptyStats)
  /\ (call.op = "engine.getPeerStatistics" /\ result.status = "ok"
        /\ result.peerCount = 0)
     => result.stats = EmptyStats

\* the company named by a benchmark call is in the store but has no row for
\* the request, or its row has no value in the column of the scope
SparseBenchmark(nzId) ==
  /\ nzId \in DOMAIN store.companies
  /\ LET rows == getCompanyEmissions(nzId, call.year)
     IN  Len(rows) = 0 \/ rows[1][column(call.scope)] = Null

\* C8: benchmarking a company of the store that has no emissions row, or no
\* value for the scope, returns a result without a company value; it does not
\* throw.
C8_SparseDataNeverRaises ==
  /\ (call.op = "db.benchmarkCompany" /\ SparseBenchmark(call.nz_id))
     => (result # NoBenchmark /\ result.companyValue = Null)
  /\ (HandlerMode = "single" /\ SparseBenchmark(call.company_id))
     => (result.status = "ok" /\ result.companyValue = Null)
  /\ (call.op = "engine.benchmarkCompany" /\ SparseBenchmark(call.company_id))
     => result.status = "ok"

\* the notes a result carries
NotesOf(r) == IF "methodologyNotes" \in DOMAIN r THEN r.methodologyNotes ELSE <<>>

\* a note of the result explains the omission of the intersection cohort and
\* gives the peer count
OmissionNoted(r, counts) ==
  \E i \in DOMAIN NotesOf(r) :
    /\ NotesOf(r)[i].kind \in {"intersection_not_available", "minimum_3_required"}
    /\ NotesOf(r)[i].detail \in counts

\* the company of a single-mode request, with both attributes of a cohort
FocalOfIntersection(nzId) ==
  /\ nzId \in DOMAIN store.companies
  /\ ~Falsy(store.companies[nzId].jurisdiction)
  /\ ~Falsy(store.companies[nzId].sics_sector)

\* C12: in single mode, when the intersection cohort has fewer than 3 peers its
\* statistics are left out and the result gives that peer count with a note
\* saying why the cohort was omitted.
C12_SmallIntersectionReported ==
  /\ (HandlerMode = "single" /\ result.status = "ok"
        /\ FocalOfIntersection(call.company_id))
     => LET company == store.companies[call.company_id]
            peers == CohortSample(call.scope,
                       Filters(company.jurisdiction, company.sics_sector, result.year))
        IN  Len(peers) < MinIntersectionPeers
            => /\ "mean" \notin DOMAIN result.combinedPeers
               /\ result.combinedPeers.count = Len(peers)
               /\ OmissionNoted(result, {Len(peers)})
  /\ (call.op = "engine.benchmarkCompany" /\ result.status = "ok"
        /\ FocalOfIntersection(call.company_id))
     => LET company == store.companies[call.company_id]
            otherPeers == Without(client_listCompanies(company.jurisdiction,
                                                       company.sics_sector),
                                  call.company_id)
            peerValues == extractPeerValues(otherPeers, result.emissionsYear, call.scope)
        IN  (Len(otherPeers) < MinIntersectionPeers \/ Len(peerValues) < MinIntersectionPeers)
            => /\ result.intersectionBenchmark = NoComparison
               /\ OmissionNoted(result, {Len(otherPeers), Len(peerValues)})

(***************************************************************************)
(* Properties of the comparisons (SpecComparison)                          *)
(***************************************************************************)

\* the ids a compare call compares: those it names, or those its filters list
ComparedList ==
  comparedIds(call.company_ids, listCompanies(call.jurisdiction, call.sector))

\* the records a compare call compares: of each company the record of the
\* year asked for, or the latest one when no year is asked for
ComparedRecords ==
  {e \in store.emissions :
     /\ e.nz_id \in Range(ComparedList)
     /\ e.nz_id \in DOMAIN store.companies
     /\ IF call.year # NoYear THEN e.year = call.year
        ELSE \A q \in store.emissions : q.nz_id = e.nz_id => q.year <= e.year}

\* the boundary tags of a set of boundary values: the values that are present
Tags(boundaries) == {b \in boundaries : b \notin {UndefinedStr, NullStr}}

\* the boundary_mismatch warnings of a pairwise check
BoundaryMismatches ==
  {i \in DOMAIN result.warnings : result.warnings[i].type = "boundary_mismatch"}

\* the boundaries-differ messages of a comparison
BoundaryMessages ==
  {i \in DOMAIN result.warnings : result.warnings[i].kind = "boundaries_differ"}

\* the boundary rule holds of a pairwise check on two boundary values
PairBoundaryRule(b1, b2) ==
  /\ Cardinality(BoundaryMismatches) = 1
  /\ \A i \in BoundaryMismatches :
       /\ result.warnings[i].severity = "warning"
       /\ {b1, b2} \subseteq Range(result.warnings[i].message)
  /\ (\A i \in DOMAIN result.warnings : result.warnings[i].severity # "error")
       => result.isComparable

\* the boundary rule holds of a compare call on a set of boundary values
CompareBoundaryRule(boundaries) ==
  /\ result.status = "ok"
  /\ result.companiesAnalyzed = Cardinality(Range(ComparedList) \cap DOMAIN store.companies)
  /\ Cardinality(BoundaryMessages) = 1
  /\ \A i \in BoundaryMessages : boundaries \subseteq result.warnings[i].detail

ComparisonMessageKinds ==
  {"scope3_variance", "category_coverage", "boundaries_differ",
   "verification_levels_differ", "non_standard_boundaries"}

\* the warnings of a compare call that are about the reporting periods
PeriodMessages ==
  {i \in DOMAIN result.warnings : result.warnings[i].kind \notin ComparisonMessageKinds}

\* the year_mismatch warnings of a pairwise check that name both years
PeriodMismatches(year1, year2) ==
  {i \in DOMAIN result.warnings :
     /\ result.warnings[i].type = "year_mismatch"
     /\ result.warnings[i].severity = "warning"
     /\ {ToString(year1), ToString(year2)} \subseteq Range(result.warnings[i].message)}

\* C14: whenever the reporting periods of the compared records differ, the
\* result holds an advisory warning that names both periods and does not
\* block the comparison, in the pairwise check and in compare mode, where
\* the latest record of each company is compared when no year is asked for.
C14_DifferingPeriodsWarned ==
  /\ call.op = "checkEmissionsComparability"
     => (call.emissions1.year # call.emissions2.year
         => /\ PeriodMismatches(call.emissions1.year, call.emissions2.year) # {}
            /\ (\A i \in DOMAIN result.warnings : result.warnings[i].severity # "error")
                 => result.isComparable)
  /\ HandlerMode = "compare"
     => (Cardinality({e.year : e \in ComparedRecords}) > 1
         => result.status = "ok" /\ PeriodMessages # {})

(***************************************************************************)
(* Properties of the quality assessment (SpecQuality)                      *)
(***************************************************************************)

\* high = 3, medium = 2, low = 1
Points(score) == IF score = "HIGH" THEN 3 ELSE IF score = "MEDIUM" THEN 2 ELSE 1

\* the level of three scores whose points sum to total: the average total / 3
\* is >= 2.5 from 8 up and >= 1.5 from 5 up
LevelOfTotal(total) ==
  IF total \in {8, 9} THEN "HIGH" ELSE IF total \in {5, 6, 7} THEN "MEDIUM" ELSE "LOW"

RecognizedBoundaries ==
  {"Operational control", "Financial control", "Equity share", "Equity share approach"}

\* the warnings of an assessment that flag its boundary as non-standard
NonStandardFlags ==
  {i \in DOMAIN result.warnings : result.warnings[i].kind = "non_standard_boundary"}

\* C16: whenever the boundary of the assessed record is absent or is not a
\* recognized value, the boundary score is low and the warnings of the
\* assessment hold one that flags the boundary as non-standard.
C16_NonStandardBoundaryFlagged ==
  (call.op = "assessDataQuality"
     /\ call.emissions.organizational_boundary \notin RecognizedBoundaries)
  => /\ result.boundaryScore = "LOW"
     /\ NonStandardFlags # {}

\* C17: the boundary score of an assessed record is HIGH for 'Operational
\* control' and 'Financial control', MEDIUM for 'Equity share' and LOW for
\* 'Company-defined'.
C17_BoundaryScoreMapping ==
  call.op = "assessDataQuality"
  => LET boundary == call.emissions.organizational_boundary
     IN  /\ boundary \in {"Operational control", "Financial control"}
            => result.boundaryScore = "HIGH"
         /\ boundary = "Equity share" => result.boundaryScore = "MEDIUM"
         /\ boundary = "Company-defined" => result.boundaryScore = "LOW"

\* the method names of the table that denote a primary-data approach named
\* by the classification rule, and those that denote a modeled one
PrimaryApproaches ==
  {"Supplier-specific method", "Hybrid method", "Asset-specific method",
   "Site-specific method"}

ModeledApproaches ==
  {"Spend-based method", "Average-data method", "Distance-based method"}

\* the tier the classification rule gives a declared method
TierOf(method, tier) ==
  /\ method \in DOMAIN SCOPE3_METHOD_QUALITY => tier = SCOPE3_METHOD_QUALITY[method]
  /\ method \in PrimaryApproaches => tier = "PRIMARY"
  /\ method \in ModeledApproaches => tier = "MODELED"
  /\ method \notin DOMAIN SCOPE3_METHOD_QUALITY => tier = "UNKNOWN"

ReportedYears == {e.year : e \in {r \in store.emissions : r.nz_id = call.nz_id}}

RecordOf(year) ==
  CHOOSE e \in store.emissions : e.nz_id = call.nz_id /\ e.year = year

\* two periods that follow one another in the history sorted by year
Consecutive(y1, y2) ==
  /\ y1 \in ReportedYears /\ y2 \in ReportedYears /\ y1 < y2
  /\ \A y \in ReportedYears : ~(y1 < y /\ y < y2)

\* the fields tagged as boundary or methodology: the three top-level
\* methodologies, the boundary, and the method of each category
TaggedFields ==
  {<<"Scope 1", 0>>, <<"Scope 2 Location-Based", 0>>, <<"Scope 2 Market-Based", 0>>,
   <<"Organizational Boundary", 0>>}
  \cup {<<"Scope 3 Category", c>> : c \in Categories}

ValueOf(e, field) ==
  IF field[1] = "Scope 1" THEN e.scope1_methodology
  ELSE IF field[1] = "Scope 2 Location-Based" THEN e.scope2_lb_methodology
  ELSE IF field[1] = "Scope 2 Market-Based" THEN e.scope2_mb_methodology
  ELSE IF field[1] = "Organizational Boundary" THEN e.organizational_boundary
  ELSE e.scope3_cat_method[field[2]]

\* the change tuples of a field in the result of a period
TuplesOf(year, field) ==
  {p \in {<<i, j>> : i \in DOMAIN result.changes, j \in 1..(NumCategories + 4)} :
     /\ result.changes[p[1]].year = year
     /\ p[2] \in DOMAIN result.changes[p[1]].changes
     /\ result.changes[p[1]].changes[p[2]].scope = field}

\* the fields whose values differ between the records of two periods
Differing(y1, y2) ==
  {f \in TaggedFields : ValueOf(RecordOf(y1), f) # ValueOf(RecordOf(y2), f)}

\* C19: for each pair of consecutive periods of the history sorted by year,
\* every boundary or methodology field, top-level or of a category, whose
\* value differs between the two records, a value present on one side and
\* absent on the other included, has exactly one change tuple in the result
\* of the later period, and the tuple holds the two values.
C19_OneTuplePerDifferingField ==
  call.op = "detectMethodologyChanges"
  => \A y1, y2 \in ReportedYears :
       Consecutive(y1, y2)
       => \A f \in Differing(y1, y2) :
            /\ Cardinality(TuplesOf(y2, f)) = 1
            /\ \A p \in TuplesOf(y2, f) :
                 LET tuple == result.changes[p[1]].changes[p[2]]
                 IN  /\ tuple.previousMethod = ValueOf(RecordOf(y1), f)
                     /\ tuple.currentMethod = ValueOf(RecordOf(y2), f)

\* a history of three periods in which a top-level field appears, a category
\* method is replaced and the boundary disappears
C19_Witness ==
  /\ call.op = "detectMethodologyChanges"
  /\ ReportedYears = HistoryYears
  /\ \E y1, y2 \in ReportedYears :
       /\ Consecutive(y1, y2)
       /\ RecordOf(y1).scope1_methodology = NullStr
       /\ RecordOf(y2).scope1_methodology # NullStr
       /\ <<"Scope 3 Category", 1>> \in Differing(y1, y2)
       /\ NullStr \notin {RecordOf(y1).scope3_cat_method[1],
                           RecordOf(y2).scope3_cat_method[1]}
  /\ \E y1, y2 \in ReportedYears :
       /\ Consecutive(y1, y2)
       /\ RecordOf(y1).organizational_boundary # NullStr
       /\ RecordOf(y2).organizational_boundary = NullStr
  /\ Len(result.changes) = 2

\* the periods of the history in which some field differs from the period before
ChangedYears ==
  {y2 \in ReportedYears :
     \E y1 \in ReportedYears : Consecutive(y1, y2) /\ Differing(y1, y2) # {}}

\* C20: no entry of the result has an empty change list; a period without
\* any change has no entry, so a history without any change, every history
\* of fewer than two periods included, yields the empty list, not an error.
C20_NoEmptyEntries ==
  call.op = "detectMethodologyChanges"
  => /\ \A i \in DOMAIN result.changes : Len(result.changes[i].changes) > 0
     /\ {result.changes[i].year : i \in DOMAIN result.changes} = ChangedYears
     /\ ChangedYears = {} => result.changes = <<>>
     /\ Cardinality(ReportedYears) < 2 => result.changes = <<>>

\* a history of three periods of which only the last brings a change
C20_Witness ==
  /\ call.op = "detectMethodologyChanges"
  /\ ReportedYears = HistoryYears
  /\ ChangedYears = {2022}
  /\ Len(result.changes) = 1

\* a history of one period, for which the result is the empty list
C20_SinglePeriod ==
  /\ call.op = "detectMethodologyChanges"
  /\ Cardinality(ReportedYears) = 1
  /\ result.changes = <<>>

(***************************************************************************)
(* Properties of the trends (SpecTrend)                                    *)
(***************************************************************************)

\* the first and the last data point of a trend, and the years between them
FirstPoint == result.dataPoints[1]

LastPoint == result.dataPoints[Len(result.dataPoints)]

\* C21: a trend holds a compound annual growth rate only when the first and
\* the last period are more than one year apart and the first value is
\* above 0; otherwise, a span of exactly one year included, the rate is null.
C21_GrowthRateOnlyOverYears ==
  /\ call.op = "getPeerTrend"
     => (result.analysis.averageAnnualGrowthRate # NullNumber
         => /\ Len(result.dataPoints) >= 2
            /\ LastPoint.year - FirstPoint.year > 1
            /\ FirstPoint.mean.num > 0)
  /\ (call.op = "compareYears" /\ result # NoYearComparison)
     => \A scope \in BenchScopes :
          result.scopes[scope].cagr # NullNumber
          => /\ Abs(call.year2 - call.year1) > 1
             /\ result.scopes[scope].year1 > 0

\* percent is (last - first) / first * 100, a finite number
IsPercentChange(percent, first, last) ==
  /\ percent # NullNumber
  /\ percent.den # 0
  /\ percent.num * first.num * last.den
       = 100 * percent.den * (last.num * first.den - first.num * last.den)

\* C22: with two or more data points the percent change of the mean is
\* (last - first) / first * 100 when the first value is not 0, and is null,
\* never NaN or infinite, when the first value is 0.
C22_PercentChangeOrNull ==
  /\ (call.op = "getPeerTrend" /\ Len(result.dataPoints) >= 2)
     => IF FirstPoint.mean.num # 0
        THEN IsPercentChange(result.analysis.meanChangePercent,
                             FirstPoint.mean, LastPoint.mean)
        ELSE result.analysis.meanChangePercent = NullNumber
  /\ (call.op = "compareYears" /\ result # NoYearComparison)
     => \A scope \in BenchScopes :
          LET first == result.scopes[scope].year1
              last == result.scopes[scope].year2
          IN  (first # Null /\ last # Null)
              => IF first # 0
                 THEN IsPercentChange(result.scopes[scope].percent_change,
                                      Rat(first, 1), Rat(last, 1))
                 ELSE result.scopes[scope].percent_change = NullNumber

\* a comparison of a year with the value 0 with a year with a value above 0
C22_Witness ==
  /\ call.op = "compareYears"
  /\ result # NoYearComparison
  /\ result.scopes["scope1"].year1 = 0
  /\ result.scopes["scope1"].year2 > 0
  /\ result.scopes["scope1"].percent_change = NullNumber

\* a trend of three data points whose mean falls
C22_TrendWitness ==
  /\ call.op = "getPeerTrend"
  /\ Len(result.dataPoints) = 3
  /\ result.analysis.meanChangePercent # NullNumber
  /\ result.analysis.meanChangePercent.num < 0

\* 100 * (last - first) / first, the percent change of the mean, against a
\* percentage, for a first mean above 0: the sign of the difference
ChangeAbove(first, last, percent) ==
  100 * (last.num * first.den - first.num * last.den) > percent * first.num * last.den

ChangeBelow(first, last, percent) ==
  100 * (last.num * first.den - first.num * last.den) < percent * first.num * last.den

\* C23: with two or more data points the direction of the trend is
\* 'increasing' exactly when the percent change of the mean is above 5,
\* 'decreasing' exactly when it is below -5, and 'stable' otherwise, at
\* exactly 5 and exactly -5 too.
C23_DirectionByFivePercentBand ==
  (call.op = "getPeerTrend" /\ Len(result.dataPoints) >= 2)
  => /\ FirstPoint.mean.num > 0
     /\ result.analysis.overallTrendDirection = "increasing"
          <=> ChangeAbove(FirstPoint.mean, LastPoint.mean, 5)
     /\ result.analysis.overallTrendDirection = "decreasing"
          <=> ChangeBelow(FirstPoint.mean, LastPoint.mean, -5)
     /\ result.analysis.overallTrendDirection = "stable"
          <=> (~ChangeAbove(FirstPoint.mean, LastPoint.mean, 5)
               /\ ~ChangeBelow(FirstPoint.mean, LastPoint.mean, -5))

\* a trend from a mean of 20 to a mean of 21, a change of exactly 5%
C23_Witness ==
  /\ call.op = "getPeerTrend"
  /\ Len(result.dataPoints) >= 2
  /\ RatEq(FirstPoint.mean, Rat(20, 1))
  /\ RatEq(LastPoint.mean, Rat(21, 1))
  /\ result.analysis.overallTrendDirection = "stable"

\* trends above the band, below it, and at exactly -5%
C23_Increasing ==
  call.op = "getPeerTrend" /\ result.analysis.overallTrendDirection = "increasing"

C23_Decreasing ==
  call.op = "getPeerTrend" /\ result.analysis.overallTrendDirection = "decreasing"

C23_StableAtMinusFive ==
  /\ call.op = "getPeerTrend"
  /\ Len(result.dataPoints) >= 2
  /\ RatEq(FirstPoint.mean, Rat(20, 1))
  /\ RatEq(LastPoint.mean, Rat(19, 1))
  /\ result.analysis.overallTrendDirection = "stable"

\* the periods of the range of a trend call that have data: a value above 0
\* of a company the filters select
PeriodsWithData ==
  {e.year : e \in
     {r \in store.emissions :
        /\ r[column(call.scope)] # Null
        /\ r[column(call.scope)] > 0
        /\ call.jurisdiction # NoFilter
             => store.companies[r.nz_id].jurisdiction = call.jurisdiction
        /\ call.startYear # NoYear => r.year >= call.startYear
        /\ call.endYear # NoYear => r.year <= call.endYear}}

\* C24: whenever fewer than two periods have data, the direction of the
\* trend is 'insufficient_data' and meanChange, meanChangePercent,
\* averageAnnualChange and the growth rate are all null.
C24_InsufficientDataAllNull ==
  (call.op = "getPeerTrend" /\ Cardinality(PeriodsWithData) < 2)
  => /\ Len(result.dataPoints) = Cardinality(PeriodsWithData)
     /\ result.analysis.overallTrendDirection = "insufficient_data"
     /\ result.analysis.meanChange = NullNumber
     /\ result.analysis.meanChangePercent = NullNumber
     /\ result.analysis.averageAnnualChange = NullNumber
     /\ result.analysis.averageAnnualGrowthRate = NullNumber

\* a trend over a range in which exactly one period has data
C24_Witness ==
  /\ call.op = "getPeerTrend"
  /\ Cardinality(PeriodsWithData) = 1
  /\ Len(result.dataPoints) = 1
  /\ result.analysis.overallTrendDirection = "insufficient_data"

\* a trend over a store without any data for the scope
C24_NoData ==
  /\ call.op = "getPeerTrend"
  /\ call.startYear = NoYear
  /\ PeriodsWithData = {}
  /\ result.yearRange.start = Null
  /\ result.analysis.overallTrendDirection = "insufficient_data"

(***************************************************************************)
(* Properties of requests in flight together (SpecShared)                  *)
(***************************************************************************)

\* what the request of a slot returns when it is the only one made: every
\* read of the cache misses and every record comes from the store
ResultAlone(request) ==
  CASE request.op = "db.benchmarkCompany" ->
         benchmarkCompany(request.nz_id, request.scope, request.year)
    [] request.op = "db.getCompanyQualityAssessment" ->
         getCompanyQualityAssessment(request.nz_id, request.year)
    [] request.op = "db.compareYears" ->
         compareYears(request.nz_id, request.year1, request.year2)
    [] request.op = "engine.getPeerStatistics" ->
         engine_getPeerStatistics(request.jurisdiction, request.sector,
                                  request.scope, request.year)

CategoryExceedsTotal(emissions) ==
  /\ emissions.scope3_total # Null
  /\ \E cat \in Categories :
       /\ emissions.scope3_cat[cat] # Null
       /\ emissions.scope3_cat[cat] > emissions.scope3_total

\* C26: the assessment of a row in which a category exceeds the Scope 3
\* total returns (it does not throw) and carries a warning.
C26_ExceedingCategoryWarned ==
  (call # NoCall /\ call.op = "assessDataQuality"
     /\ CategoryExceedsTotal(call.emissions))
    => (result.nz_id = call.emissions.nz_id /\ Len(result.warnings) > 0)

\* the part of C26 the code keeps: such a row is assessed, not refused
C26_ExceedingCategoryAssessed ==
  (call # NoCall /\ call.op = "assessDataQuality"
     /\ CategoryExceedsTotal(call.emissions))
    => (result.nz_id = call.emissions.nz_id /\ result.year = call.emissions.year)

(***************************************************************************)
(* Frame of the engine's statistics (SpecStats)                            *)
(***************************************************************************)

EngineStatsOps == {"calculatePeerStats", "calculatePercentileRank", "createPeerComparison"}

OtherReporters(nzId, scope, jurisdiction, sector, year) ==
  {i \in DOMAIN store.companies \ {nzId} :
     /\ jurisdiction # NoFilter => store.companies[i].jurisdiction = jurisdiction
     /\ sector # NoFilter => store.companies[i].sics_sector = sector
     /\ \E e \in store.emissions :
          /\ e.nz_id = i
          /\ e.year = year
          /\ e[column(scope)] # Null
          /\ e[column(scope)] > 0}

\* the statistics are those of a sample of n values (none for n = 0)
CountIs(stats, n) == IF stats = NullStats THEN n = 0 ELSE stats.count = n

\* the engine excludes the focal company from each of its three cohorts
C28_EngineExcludesFocal ==
  (call.op = "engine.benchmarkCompany" /\ result.status = "ok")
    => LET company == result.company
           year == result.emissionsYear
       IN  /\ result.jurisdictionBenchmark # NoComparison
                => result.jurisdictionBenchmark.peerCount =
                     Cardinality(OtherReporters(call.company_id, call.scope,
                                                company.jurisdiction, NoFilter, year))
           /\ result.sectorBenchmark # NoComparison
                => result.sectorBenchmark.peerCount =
                     Cardinality(OtherReporters(call.company_id, call.scope,
                                                NoFilter, company.sics_sector, year))
           /\ result.intersectionBenchmark # NoComparison
                => result.intersectionBenchmark.peerCount =
                     Cardinality(OtherReporters(call.company_id, call.scope,
                                                company.jurisdiction,
                                                company.sics_sector, year))

\* the same of benchmarkCompany of db/queries.ts
DbExcludesFocal ==
  (call.op = "db.benchmarkCompany" /\ result # NoBenchmark)
    => LET company == result.company
           year == result.companyYear
       IN  /\ ~Falsy(company.jurisdiction)
                => CountIs(result.jurisdictionStats,
                           Cardinality(OtherReporters(call.nz_id, call.scope,
                                                      company.jurisdiction, NoFilter, year)))
           /\ ~Falsy(company.sics_sector)
                => CountIs(result.sectorStats,
                           Cardinality(OtherReporters(call.nz_id, call.scope,
                                                      NoFilter, company.sics_sector, year)))
           /\ (~Falsy(company.jurisdiction) /\ ~Falsy(company.sics_sector))
                => CountIs(result.combinedStats,
                           Cardinality(OtherReporters(call.nz_id, call.scope,
                                                      company.jurisdiction,
                                                      company.sics_sector, year)))

\* C28: the peer sample behind each cohort of a single benchmark (by
\* jurisdiction, by sector, by both) holds the values of the other
\* companies of the cohort only, never that of the focal company.
C28_FocalNotAmongPeers == C28_EngineExcludesFocal /\ DbExcludesFocal

(***************************************************************************)
(* The per-category methodology warning (SpecQuality)                      *)
(***************************************************************************)

\* the assessment carries a methodology warning for the category
CategoryWarned(r, cat) ==
  \E i \in DOMAIN r.warnings :
    /\ r.warnings[i].kind \in {"scope3_no_methodology", "scope3_modeled"}
    /\ r.warnings[i].category = cat

\* a warning for exactly the categories of unknown or modeled tier that
\* hold more than the threshold
WarnedAbove(threshold) ==
  (call # NoCall /\ call.op = "assessDataQuality")
    => \A cat \in Categories :
         CategoryWarned(result, cat)
           <=> /\ call.emissions.scope3_cat[cat] # Null
               /\ call.emissions.scope3_cat[cat] > threshold
               /\ result.scope3MethodQuality[cat].methodTier \in {"UNKNOWN", "MODELED"}

\* C29: a category gets a methodology warning exactly when its value is
\* above the fixed threshold of significant emissions and its tier is
\* unknown or modeled; at or below the threshold there is none.
C29_WarnedIffAboveThreshold == WarnedAbove(SignificantEmissions)

\* the same with the threshold any positive value exceeds
C29_WarnedIffPositive == WarnedAbove(0)

\* what the code does: the unknown tier is warned of for any positive
\* value, the modeled tier above the threshold only
C29_ThresholdPerTier ==
  (call # NoCall /\ call.op = "assessDataQuality")
    => \A cat \in Categories :
         CategoryWarned(result, cat)
           <=> /\ call.emissions.scope3_cat[cat] # Null
               /\ \/ /\ result.scope3MethodQuality[cat].methodTier = "UNKNOWN"
                     /\ call.emissions.scope3_cat[cat] > 0
                  \/ /\ result.scope3MethodQuality[cat].methodTier = "MODELED"
                     /\ call.emissions.scope3_cat[cat] > SignificantEmissions

(***************************************************************************)
(* Properties of the cache (SpecCache)                                     *)
(***************************************************************************)

\* the entry has been in the cache for longer than it was stored to live
Outlived(entry) == store.now - entry.timestamp > entry.ttl

\* C30: whatever calls of set, get, has and clear came before and however
\* much time has passed, get and has do not return or report an entry that
\* is older than its time to live: they report it absent and remove it;
\* what get returns is the data of an entry within its time to live.
C30_NoEntryBeyondItsTtl ==
  (call # NoCall /\ call.op \in {"get", "has"})
    => /\ (call.entry # NoEntry /\ Outlived(call.entry))
            => (~result.found /\ call.key \notin DOMAIN store.cache)
       /\ result.found
            => /\ call.entry # NoEntry
               /\ ~Outlived(call.entry)
               /\ call.op = "get" => result.data = call.entry.data

\* get reads an entry one unit of time past its time to live while the
\* other key still holds an entry
C30_Witness ==
  /\ call # NoCall
  /\ call.op = "get"
  /\ call.entry # NoEntry
  /\ store.now - call.entry.timestamp = call.entry.ttl + 1
  /\ ~result.found
  /\ call.key \notin DOMAIN store.cache
  /\ DOMAIN store.cache # {}

\* an entry of exactly its time to live is still returned
C30_ServedAtTtl ==
  /\ call # NoCall
  /\ call.op = "get"
  /\ call.entry # NoEntry
  /\ store.now - call.entry.timestamp = call.entry.ttl
  /\ result.found

====
